---- MODULE Spec2Model ----
(***************************************************************************)
(* Event/broadcast dispatch framework of robotcode                         *)
(* (src/robotcode/utils/async_event.py): the weak listener registry, the   *)
(* declaration-site descriptor and the three dispatch strategies.          *)
(*                                                                         *)
(* Execution contexts: the threads of Threads call add/remove and drop the *)
(* last reference to a listener's owner; one dispatch at a time runs on    *)
(* the event loop.  A listener is identified with its callable: two weak   *)
(* references to the same live callable are equal and hash alike, so the   *)
(* registry (a Python set of weak references) is a set of listeners.  A    *)
(* released listener is never alive again.                                 *)
(*                                                                         *)
(* The worker pool of the concurrent-thread dispatcher is modelled with    *)
(* its callers as separate execution contexts (PoolSpec).                  *)
(***************************************************************************)
EXTENDS Integers, Sequences, FiniteSets, TLC

\* ---------------------------------------------------------------- bounds
MaxDispatchers == 2
MaxDispatches == 1
MaxCancels == 1
MaxArgs == 5

Listeners == {1, 2}
Threads == {"t1", "t2"}
Instances == {"p1", "p2"}
None == "None"
\* The component that owns listener l registers and unregisters it through
\* its own instance of the declaring type.
Via(l) == IF l = 1 THEN "p1" ELSE "p2"
Strategies == {"direct", "task", "thread"}
DispIds == 1..MaxDispatchers

VARIABLES
    strategy,    \* which event class the declaration site builds
    listeners,   \* listeners[d]: the registry set of dispatcher d
    alive,       \* listeners whose owner has not been released
    lock,        \* "free" or the thread that holds self.lock
    th,          \* th[t]: what thread t is executing
    event,       \* the descriptor's __event: 0 (None) or a dispatcher
    nCreated,    \* number of dispatchers the factory has built
    ret,         \* what the latest __get__ returned
    removed,     \* listeners whose latest remove succeeded, not added again since
    nDisp,       \* dispatches started
    dState,      \* position of the dispatch
    dObj,        \* the instance the dispatch was made through
    dDisp,       \* the dispatcher it runs on
    dIgnore,     \* its ignore_exceptions argument
    dSize,       \* size of the set when its iterator was created
    dSnap,       \* the registry when the dispatch started
    dMutated,    \* the registry changed since the dispatch started
    dSeen,       \* handles the set iterator has produced
    dVisited,    \* listeners invoked, in invocation order
    dCompleted,  \* <<listener, ok>> in completion order
    dTaken,      \* completions already retrieved from as_completed
    dSlots,      \* _wait_for_one coroutines as_completed has yet to yield
    dResults,    \* entries yielded to the caller
    dErr,        \* exception that left the dispatch
    dCancels,    \* cancellations delivered to the dispatch
    executor,    \* the dispatcher's __executor: NoPool (None) or the pool it owns
    nPools,      \* ThreadPoolExecutor objects the dispatcher has built
    caller,      \* caller[c]: where context c is in _notify, and the pool it uses
    bases,       \* bases[t]: __bases__ of syntax-node type t, in declaration order
    attrs,       \* attrs[t]: what the attribute references_<t> of the part is
    cls,         \* the type _find_method was last asked about
    found,       \* what it returned, and the types it looked at
    node,        \* the invocation-shaped node under search: its name token and arguments
    out,         \* what the keyword-match logic produced for it
    request,     \* the references request: document, position, context, environment
    response,    \* what collect answered, and the way it took
    walk,        \* the per-file walk of a search and the cancellation of its request
    capabilities, \* the ServerCapabilities object handed to extend_capabilities
    consumer,    \* the caller of the lazy dispatch: reading, or closing the sequence
    callbacks,   \* the calls of result_callback, in order
    worker       \* worker[l]: the pool worker and private event loop of listener l

regVars == <<listeners, alive, lock, th, removed>>
descVars == <<event, nCreated, ret>>
dispVars == <<nDisp, dState, dObj, dDisp, dIgnore, dSize, dSnap, dMutated, dSeen,
              dVisited, dCompleted, dTaken, dSlots, dResults, dErr, dCancels>>
\* The dispatch variables a registry call leaves alone (it sets dMutated).
dispRest == <<nDisp, dState, dObj, dDisp, dIgnore, dSize, dSnap, dSeen, dVisited,
              dCompleted, dTaken, dSlots, dResults, dErr, dCancels>>
poolVars == <<executor, nPools, caller>>
\* The state outside the listener registry, the descriptor and the dispatch.
typeVars == <<bases, attrs, cls, found>>
matchVars == <<node, out>>
refVars == <<request, response>>
lateVars == <<walk, capabilities, consumer, callbacks, worker>>
engVars == <<poolVars, typeVars, matchVars, refVars, lateVars>>
\* The dispatch framework as a whole.
eventVars == <<strategy, regVars, descVars, dispVars>>
vars == <<strategy, regVars, descVars, dispVars, engVars>>

\* th[t]: the call thread t is in (op), its listener (l) and dispatcher (d),
\* and the listener of the call that a weak-reference callback interrupted (held).
Idle == [op |-> "idle", l |-> 0, d |-> 0, held |-> 0]

\* Sequence helpers
Range(s) == {s[k] : k \in 1..Len(s)}

\* ------------------------------------------------- the descriptor (__get__)
\* What __get__ can return: the descriptor itself or an event object.
TheDescriptor == [kind |-> "descriptor", id |-> 0]
Dispatcher(d) == [kind |-> "event", id |-> d]
Nothing == [kind |-> "none", id |-> 0]

\* Faulty variant: __get__ without the `if self.__event is None` test builds
\* a new event on every access through an instance.
DescriptorGet_AlwaysBuilds(obj) ==
    IF obj = None
    THEN [val |-> TheDescriptor, event |-> event, created |-> nCreated]
    ELSE [val |-> Dispatcher(nCreated + 1), event |-> nCreated + 1,
          created |-> nCreated + 1]

\* AsyncEventDescriptorBase.__get__: access through the type returns the
\* descriptor; access through an instance builds the event on first use and
\* returns the descriptor's one __event afterwards.  __get__ has no
\* suspension point and is taken as one step.
DescriptorGet(obj) ==
    IF obj = None
    THEN [val |-> TheDescriptor, event |-> event, created |-> nCreated]
    ELSE IF event = 0
         THEN [val |-> Dispatcher(nCreated + 1), event |-> nCreated + 1,
               created |-> nCreated + 1]
         ELSE [val |-> Dispatcher(event), event |-> event, created |-> nCreated]

\* The effect of one instance access on the descriptor's state.
Access(obj) ==
    /\ DescriptorGet(obj).created <= MaxDispatchers
    /\ event' = DescriptorGet(obj).event
    /\ nCreated' = DescriptorGet(obj).created
    /\ ret' = DescriptorGet(obj).val

\* ------------------------------------------------------------ the registry
\* set.add / set.remove on weak references, by referent.
SetAdd(S, l) == S \cup {l}
\* Faulty variant: the element stays in the set and no error is raised.
SetRemove_Keeps(S, l) == S
SetRemove(S, l) == S \ {l}

DispatchActive == dState \in {"iter", "await", "wait"}

\* Listeners invoked by the dispatch and not yet completed.
dRunning == {dVisited[k] : k \in 1..Len(dVisited)} \ {dCompleted[k].l : k \in 1..Len(dCompleted)}

\* The model follows the program until its last dispatch has ended: no new
\* call is started after that (calls in progress run to their end).
Finished == nDisp = MaxDispatches /\ ~DispatchActive

\* A strong reference to listener l is held by a running add/remove call or
\* by the dispatch that is invoking it.
Held(l) ==
    \/ \E t \in Threads : th[t].op \in {"add", "remove", "KeyError"} /\ th[t].l = l
    \/ \E t \in Threads : th[t].held = l
    \/ DispatchActive /\ l \in dRunning

Registered(l) == \E d \in DispIds : l \in listeners[d]

\* The registry of the running dispatch changed under its iterator.
Touch(d, S) == dMutated \/ (DispatchActive /\ d = dDisp /\ S # listeners[d])

\* Via(l).event.add(l): __get__, then `with self.lock` is entered.
add_acquire(t, l) ==
    /\ ~Finished
    /\ th[t] = Idle
    /\ lock = "free"
    /\ l \in alive
    /\ Access(Via(l))
    /\ lock' = t
    /\ th' = [th EXCEPT ![t] = [op |-> "add", l |-> l, d |-> DescriptorGet(Via(l)).val.id,
                                 held |-> 0]]
    /\ UNCHANGED <<engVars, strategy, listeners, alive, removed, dispVars>>

\* The body of add and the exit of its `with` block.
add(t) ==
    /\ th[t].op = "add"
    /\ lock = t
    /\ LET d == th[t].d
           l == th[t].l
           S == SetAdd(listeners[d], l)
       IN /\ listeners' = [listeners EXCEPT ![d] = S]
          /\ dMutated' = Touch(d, S)
          /\ removed' = removed \ {l}
    /\ lock' = "free"
    /\ th' = [th EXCEPT ![t] = Idle]
    /\ UNCHANGED <<engVars, strategy, alive, descVars, dispRest>>

\* Via(l).event.remove(l): __get__, then `with self.lock` is entered.
remove_acquire(t, l) ==
    /\ ~Finished
    /\ th[t] = Idle
    /\ lock = "free"
    /\ l \in alive
    /\ Access(Via(l))
    /\ lock' = t
    /\ th' = [th EXCEPT ![t] = [op |-> "remove", l |-> l, d |-> DescriptorGet(Via(l)).val.id,
                                 held |-> 0]]
    /\ UNCHANGED <<engVars, strategy, listeners, alive, removed, dispVars>>

\* The body of remove.  set.remove takes the element out and the `with`
\* block is left normally, or the element is absent and set.remove raises
\* KeyError inside the `with` block.
remove(t) ==
    /\ th[t].op = "remove"
    /\ lock = t
    /\ LET d == th[t].d
           l == th[t].l
           S == SetRemove(listeners[d], l)
       IN IF l \in listeners[d]
          THEN /\ listeners' = [listeners EXCEPT ![d] = S]
               /\ dMutated' = Touch(d, S)
               /\ removed' = removed \cup {l}
               /\ lock' = "free"
               /\ th' = [th EXCEPT ![t] = Idle]
          ELSE /\ th' = [th EXCEPT ![t].op = "KeyError"]
               /\ UNCHANGED <<listeners, dMutated, removed, lock>>
    /\ UNCHANGED <<engVars, strategy, alive, descVars, dispRest>>

\* Faulty variant: the lock is taken and released by hand, with no
\* try/finally, so the KeyError leaves remove with the lock still held.
remove_raise_KeepsLock(t) ==
    /\ th[t].op = "KeyError"
    /\ lock = t
    /\ th' = [th EXCEPT ![t] = Idle]
    /\ UNCHANGED <<engVars, strategy, listeners, alive, lock, removed, descVars, dispVars>>

\* The KeyError of remove leaves the `with` block: __exit__ releases the lock
\* and the exception reaches the caller of remove.
remove_raise(t) ==
    /\ th[t].op = "KeyError"
    /\ lock = t
    /\ lock' = "free"
    /\ th' = [th EXCEPT ![t] = Idle]
    /\ UNCHANGED <<engVars, strategy, listeners, alive, removed, descVars, dispVars>>

\* The last strong reference to listener l goes away while thread t runs (a
\* reference dropped by t, or a garbage collection that t's allocations
\* trigger, which can happen inside add and remove too).  The weak reference
\* dies at once; if it is registered its callback remove_listener is called
\* on t, on top of whatever t was doing.
release_owner(t, l) ==
    /\ ~Finished
    /\ th[t].op \in {"idle", "add", "remove", "KeyError"}
    /\ l \in alive
    /\ ~Held(l)
    /\ alive' = alive \ {l}
    /\ th' = IF Registered(l)
             THEN [th EXCEPT ![t] = [op |-> "fin", l |-> l,
                                     d |-> CHOOSE d \in DispIds : l \in listeners[d],
                                     held |-> th[t].l]]
             ELSE th
    /\ UNCHANGED <<engVars, strategy, listeners, lock, removed, descVars, dispVars>>

\* remove_listener(ref): the weak-reference callback, `with self.lock:
\* self.listeners.remove(ref)`.  It waits for the lock like any other caller.
remove_listener(t) ==
    /\ th[t].op = "fin"
    /\ lock = "free"
    /\ LET d == th[t].d
           S == SetRemove(listeners[d], th[t].l)
       IN /\ listeners' = [listeners EXCEPT ![d] = S]
          /\ dMutated' = Touch(d, S)
    /\ th' = [th EXCEPT ![t] = Idle]
    /\ UNCHANGED <<engVars, strategy, alive, lock, removed, descVars, dispRest>>

\* Type.event: access through the type, no instance.
class_access ==
    /\ ~Finished
    /\ Access(None)
    /\ UNCHANGED <<engVars, strategy, regVars, dispVars>>

\* ------------------------------------------------------------ the dispatch
Concurrent == strategy \in {"task", "thread"}

Value(l) == [src |-> l, err |-> FALSE]
Error(l) == [src |-> l, err |-> TRUE]
\* The CancelledError of the enclosing request: it comes from no listener.
Cancelled == [src |-> 0, err |-> TRUE]

\* obj.event(...): __get__, then _notify starts and creates the iterator of
\* `for method_listener in self.listeners`, which records the set's size.
notify_start(obj, ign) ==
    /\ ~DispatchActive
    /\ nDisp < MaxDispatches
    /\ (strategy = "direct" => ign)
    /\ Access(obj)
    /\ LET d == DescriptorGet(obj).val.id
       IN /\ dDisp' = d
          /\ dSize' = Cardinality(listeners[d])
          /\ dSnap' = listeners[d]
    /\ nDisp' = nDisp + 1
    /\ dState' = "iter"
    /\ dObj' = obj
    /\ dIgnore' = ign
    /\ dMutated' = FALSE
    /\ dSeen' = {}
    /\ dVisited' = <<>>
    /\ dCompleted' = <<>>
    /\ dTaken' = 0
    /\ dSlots' = 0
    /\ dResults' = <<>>
    /\ dErr' = "none"
    /\ dCancels' = 0
    /\ UNCHANGED <<engVars, strategy, regVars>>

\* The handles the iterator can still produce.
Ahead == listeners[dDisp] \ dSeen

\* next() on the set iterator when the set's size is not the recorded one:
\* RuntimeError("Set changed size during iteration") leaves _notify.
notify_size_changed ==
    /\ dState = "iter"
    /\ Cardinality(listeners[dDisp]) # dSize
    /\ dState' = "failed"
    /\ dErr' = "RuntimeError"
    /\ UNCHANGED <<engVars, strategy, regVars, descVars, nDisp, dObj, dDisp, dIgnore, dSize, dSnap,
                   dMutated, dSeen, dVisited, dCompleted, dTaken, dSlots,
                   dResults, dCancels>>

\* Faulty variant: direct dispatch does not await the listener it invoked.
notify_visit_NoAwait(h) ==
    /\ dState = "iter"
    /\ Cardinality(listeners[dDisp]) = dSize
    /\ h \in listeners[dDisp] \ dSeen
    /\ dSeen' = dSeen \cup {h}
    /\ IF h \in alive
       THEN /\ dVisited' = Append(dVisited, h)
            /\ dState' = "iter"
       ELSE UNCHANGED <<dVisited, dState>>
    /\ UNCHANGED <<engVars, strategy, regVars, descVars, nDisp, dObj, dDisp, dIgnore, dSize, dSnap,
                   dMutated, dCompleted, dTaken, dSlots, dResults, dErr, dCancels>>

\* One turn of the loop: the iterator produces handle h; a dead handle
\* (method_listener() is None) is skipped, a live one is invoked.  Direct
\* dispatch awaits the listener before the loop goes on; the concurrent
\* strategies wrap the call in a future and go on.
notify_visit(h) ==
    /\ dState = "iter"
    /\ Cardinality(listeners[dDisp]) = dSize
    /\ h \in Ahead
    /\ dSeen' = dSeen \cup {h}
    /\ IF h \in alive
       THEN /\ dVisited' = Append(dVisited, h)
            /\ dState' = IF Concurrent THEN "iter" ELSE "await"
       ELSE UNCHANGED <<dVisited, dState>>
    /\ UNCHANGED <<engVars, strategy, regVars, descVars, nDisp, dObj, dDisp, dIgnore, dSize, dSnap,
                   dMutated, dCompleted, dTaken, dSlots, dResults, dErr, dCancels>>

\* The iterator is exhausted.  After a change of the set that kept its size
\* the iterator may also miss handles that were stored behind its position.
\* Direct dispatch is finished; the concurrent strategies go on to
\* asyncio.as_completed(awaitables), which yields one _wait_for_one per future.
notify_end_iter ==
    /\ dState = "iter"
    /\ Cardinality(listeners[dDisp]) = dSize
    /\ Ahead = {} \/ dMutated
    /\ dState' = IF Concurrent /\ dVisited # <<>> THEN "wait" ELSE "done"
    /\ dSlots' = IF Concurrent THEN Len(dVisited) ELSE 0
    /\ UNCHANGED <<engVars, strategy, regVars, descVars, nDisp, dObj, dDisp, dIgnore, dSize, dSnap,
                   dMutated, dSeen, dVisited, dCompleted, dTaken, dResults,
                   dErr, dCancels>>

\* Direct dispatch: the awaited listener l returns (the result is yielded
\* and the loop goes on) or raises (the exception leaves _notify).
listener_returns(l, ok) ==
    /\ strategy = "direct"
    /\ dState = "await"
    /\ l \in dRunning
    /\ dCompleted' = Append(dCompleted, [l |-> l, ok |-> ok])
    /\ IF ok
       THEN /\ dResults' = Append(dResults, Value(l))
            /\ dState' = "iter"
            /\ dErr' = dErr
       ELSE /\ dState' = "failed"
            /\ dErr' = "ListenerError"
            /\ dResults' = dResults
    /\ UNCHANGED <<engVars, strategy, regVars, descVars, nDisp, dObj, dDisp, dIgnore, dSize, dSnap,
                   dMutated, dSeen, dVisited, dTaken, dSlots, dCancels>>

\* Concurrent strategies: the future of listener l completes, with a value
\* or an exception, and as_completed queues it.  A task runs only while the
\* dispatching coroutine is suspended; a worker thread runs at any time.
future_done(l, ok) ==
    /\ Concurrent
    /\ dState \in {"wait", "closing"} \/ (strategy = "thread" /\ dState = "iter")
    /\ l \in dRunning
    /\ dCompleted' = Append(dCompleted, [l |-> l, ok |-> ok])
    /\ UNCHANGED <<engVars, strategy, regVars, descVars, nDisp, dState, dObj, dDisp, dIgnore, dSize, dSnap,
                   dMutated, dSeen, dVisited, dTaken, dSlots, dResults, dErr,
                   dCancels>>

\* The entry one retrieved completion adds to the output:
\*   try: yield await a
\*   except BaseException as e:
\*       if not ignore_exceptions: yield e
Yielded(c, ign) ==
    IF c.ok THEN <<Value(c.l)>>
    ELSE IF ign THEN <<>> ELSE <<Error(c.l)>>

\* Faulty variant: the completions are kept on a stack, newest first.
NextCompletion_Newest == dCompleted[Len(dCompleted) - dTaken]

\* The head of as_completed's queue.
NextCompletion == dCompleted[dTaken + 1]

\* `yield await a`: the next _wait_for_one returns the oldest completion
\* that was not retrieved yet.
notify_retrieve ==
    /\ dState = "wait"
    /\ dSlots > 0
    /\ dTaken < Len(dCompleted)
    /\ dResults' = dResults \o Yielded(NextCompletion, dIgnore)
    /\ dTaken' = dTaken + 1
    /\ dSlots' = dSlots - 1
    /\ dState' = IF dSlots = 1 THEN "done" ELSE "wait"
    /\ UNCHANGED <<engVars, strategy, regVars, descVars, nDisp, dObj, dDisp, dIgnore, dSize, dSnap,
                   dMutated, dSeen, dVisited, dCompleted, dErr, dCancels>>

\* The enclosing request is cancelled while the dispatch is suspended:
\* CancelledError is raised at its await.  In direct dispatch nothing catches
\* it.  In the concurrent strategies the await is inside
\* `try ... except BaseException`, so the error is handled like a listener's:
\* dropped or yielded, and the loop goes on with the next _wait_for_one.
cancel ==
    /\ dCancels < MaxCancels
    /\ dCancels' = dCancels + 1
    /\ \/ /\ dState = "await"
          /\ dState' = "cancelled"
          /\ dErr' = "CancelledError"
          /\ UNCHANGED <<dResults, dSlots>>
       \/ /\ dState = "wait"
          /\ dSlots > 0
          /\ dResults' = IF dIgnore THEN dResults ELSE Append(dResults, Cancelled)
          /\ dSlots' = dSlots - 1
          /\ dState' = IF dSlots = 1 THEN "done" ELSE "wait"
          /\ dErr' = dErr
    /\ UNCHANGED <<engVars, strategy, regVars, descVars, nDisp, dObj, dDisp, dIgnore, dSize, dSnap,
                   dMutated, dSeen, dVisited, dCompleted, dTaken>>

\* ------------------------------------------- the worker pool (thread strategy)
\* Execution contexts that dispatch on one concurrent-thread dispatcher, each
\* on its own event loop.
Callers == {"c1", "c2", "c3"}

NoPool == [kind |-> "none", id |-> 0]
\* The k-th ThreadPoolExecutor the dispatcher built.
OwnPool(k) == [kind |-> "own", id |-> k]
\* A pool the caller passes as executor=...
SuppliedPool == [kind |-> "supplied", id |-> 0]

\* caller[c]: pc is the position in _notify, arg the executor argument and
\* exec the local variable `executor` once it is settled.
Outside == [pc |-> "idle", arg |-> NoPool, exec |-> NoPool]

\* _notify(..., executor=arg) up to the test `if self.__executor is None`:
\* a supplied pool is used as it is; otherwise the caller goes on to build
\* the pool if the attribute is None and to read the attribute if not.
pool_enter(c, arg) ==
    /\ strategy = "thread"
    /\ caller[c].pc = "idle"
    /\ caller' = [caller EXCEPT ![c] =
                    IF arg # NoPool
                    THEN [pc |-> "run", arg |-> arg, exec |-> arg]
                    ELSE [pc |-> IF executor = NoPool THEN "build" ELSE "read",
                          arg |-> arg, exec |-> NoPool]]
    /\ UNCHANGED <<eventVars, lateVars, refVars, typeVars, matchVars, executor, nPools>>

\* self.__executor = ThreadPoolExecutor(thread_name_prefix=...): the prefix
\* is computed by a call, the pool is constructed and then stored.  Nothing
\* keeps another context from running between the test and the store.
pool_create(c) ==
    /\ caller[c].pc = "build"
    /\ nPools' = nPools + 1
    /\ executor' = OwnPool(nPools + 1)
    /\ caller' = [caller EXCEPT ![c].pc = "read"]
    /\ UNCHANGED <<eventVars, lateVars, refVars, typeVars, matchVars>>

\* executor = self.__executor
pool_read(c) ==
    /\ caller[c].pc = "read"
    /\ caller' = [caller EXCEPT ![c] = [pc |-> "run", arg |-> NoPool, exec |-> executor]]
    /\ UNCHANGED <<eventVars, lateVars, refVars, typeVars, matchVars, executor, nPools>>

\* The dispatch of context c has run its listeners on caller[c].exec and ends.
pool_leave(c) ==
    /\ caller[c].pc = "run"
    /\ caller' = [caller EXCEPT ![c] = Outside]
    /\ UNCHANGED <<eventVars, lateVars, refVars, typeVars, matchVars, executor, nPools>>

\* ------------------------------------------- syntax dispatch (_find_method)
\* Syntax-node types: the root ast.AST, Python's object above it, and three
\* node types below.  A type names its bases before it is created, so a
\* type's bases come earlier in TypeOrder.
TypeOrder == <<"object", "AST", "A", "B", "C">>
TypeNames == Range(TypeOrder)
Root == "AST"

\* The base lists a class statement can name over the types S: one base, or
\* two different ones.
BasesOver(S) == {<<x>> : x \in S} \cup {z \in S \X S : z[1] # z[2]}

\* The strict super-types of t under the base lists b.
RECURSIVE SuperTypes(_, _)
SuperTypes(b, t) ==
    LET direct == Range(b[t])
    IN direct \cup UNION {SuperTypes(b, u) : u \in direct}

\* Python refuses a class whose base list names a type before one of that
\* type's sub-types (no consistent method resolution order).
Linearizable(b) ==
    \A t \in TypeNames : \A i, j \in 1..Len(b[t]) :
        i < j => b[t][i] \notin SuperTypes(b, b[t][j])

\* Faulty variant: hasattr alone, without the callable() test.
has_handler_AnyAttribute(c) == attrs[c] # "none"

\* hasattr(self, "references_" + cls.__name__) and callable(method)
has_handler(c) == attrs[c] = "method"

\* _find_method(cls): the root gives None; a callable references_<cls> is
\* returned; otherwise the bases are tried in order and the first result that
\* is not None is returned.  `calls` lists the types of the calls made, in
\* the order they were entered.
RECURSIVE find_method(_)
RECURSIVE find_in_bases(_, _, _)
find_in_bases(c, i, calls) ==
    IF i > Len(bases[c])
    THEN [method |-> None, calls |-> calls]
    ELSE LET r == find_method(bases[c][i])
         IN IF r.method # None
            THEN [method |-> r.method, calls |-> calls \o r.calls]
            ELSE find_in_bases(c, i + 1, calls \o r.calls)

find_method(c) ==
    IF c = Root THEN [method |-> None, calls |-> <<c>>]
    ELSE IF has_handler(c) THEN [method |-> c, calls |-> <<c>>]
    ELSE find_in_bases(c, 1, <<c>>)

NotAsked == [method |-> None, calls |-> <<>>]

\* self._find_method(type(node)) for a node of type c.
resolve(c) ==
    /\ cls' = c
    /\ found' = find_method(c)
    /\ UNCHANGED <<eventVars, lateVars, refVars, poolVars, matchVars, bases, attrs>>

\* ------------------------------- keyword-match logic and run-keyword unwrapping
\* Token values.  A token is [v |-> value, at |-> position in its statement]:
\* the name token is at 1 and the i-th argument at i + 1.
Wrappers == {"Run Keyword", "Run Keyword Unless", "Wait Until Keyword Succeeds",
             "Run Keywords", "Run Keyword If"}
ArgValues == {"KwA", "arg1", "${x}", "AND", "ELSE", "ELSE IF", "Run Keyword"}
PlainNames == {"KwA", "kw_a", "KW A", "arg1", "${x}", "LibA.KwA", "LibB.KwA", "LibC.KwA"}
Token(v, at) == [v |-> v, at |-> at]
NoToken == [v |-> None, at |-> 0]

\* Faulty variant: every token is taken for a plain name.
is_not_variable_token_Always(t) == TRUE

\* The token values that are a variable.
VariableNames == {"${x}", "${a}"}

\* is_not_variable_token: the token's text holds no variable.
is_not_variable_token(t) == t.v \notin VariableNames

\* KeywordMatcher's normal form of a name: lower case, blanks and
\* underscores taken out.
Normalize(v) ==
    CASE v \in {"KwA", "kw_a", "KW A"} -> "kwa"
      [] v = "arg1" -> "arg1"
      [] v = "Run Keyword" -> "runkeyword"
      [] v = "Run Keyword Unless" -> "runkeywordunless"
      [] v = "Wait Until Keyword Succeeds" -> "waituntilkeywordsucceeds"
      [] v = "Run Keywords" -> "runkeywords"
      [] v = "Run Keyword If" -> "runkeywordif"
      [] v = "LibA" -> "liba"
      [] v = "LibB" -> "libb"
      [] v = "LibC" -> "libc"
      [] v = "BuiltIn" -> "builtin"
      [] v = "LibA.KwA" -> "liba.kwa"
      [] v = "LibB.KwA" -> "libb.kwa"
      [] v = "LibC.KwA" -> "libc.kwa"
      [] v = "BuiltIn.Run Keywords" -> "builtin.runkeywords"
      [] OTHER -> v

ALL_RUN_KEYWORDS_MATCHERS == {Normalize(w) : w \in Wrappers}

\* iter_over_keyword_names_and_owners: the whole name without owner, then
\* every split of the name at a dot into owner and name.
iter_over_keyword_names_and_owners(full) ==
    <<[lib |-> None, name |-> full]>> \o
    (CASE full = "LibA.KwA" -> <<[lib |-> "LibA", name |-> "KwA"]>>
       [] full = "LibB.KwA" -> <<[lib |-> "LibB", name |-> "KwA"]>>
       [] full = "LibC.KwA" -> <<[lib |-> "LibC", name |-> "KwA"]>>
       [] full = "BuiltIn.Run Keywords" -> <<[lib |-> "BuiltIn", name |-> "Run Keywords"]>>
       [] OTHER -> <<>>)

\* robot.utils.escaping.unescape: no token value here holds a backslash.
unescape(v) == v

\* The namespace of the searched file.  It imports the libraries BuiltIn and
\* LibA; LibB and LibC are not imported.
ImportedMatchers == {Normalize("BuiltIn"), Normalize("LibA")}

\* Keyword definitions: KwA of LibA (the search target) and the wrappers of
\* BuiltIn, with their classification.
KwA == [name |-> "KwA", kind |-> "plain", conds |-> 0]
WrapperDoc(w) ==
    [name |-> w,
     kind |-> CASE w = "Run Keyword" -> "run_keyword"
                [] w \in {"Run Keyword Unless", "Wait Until Keyword Succeeds"}
                     -> "run_keyword_with_condition"
                [] w = "Run Keywords" -> "run_keywords"
                [] w = "Run Keyword If" -> "run_keyword_if",
     conds |-> CASE w = "Run Keyword Unless" -> 1
                 [] w = "Wait Until Keyword Succeeds" -> 2
                 [] OTHER -> 0]
NoKeyword == [name |-> None, kind |-> "none", conds |-> 0]

\* namespace.find_keyword(name).  The resolver is an external collaborator;
\* LibB.KwA stands for a name that it resolves to the target although its
\* owner is not imported in this file, LibC.KwA for one it does not resolve.
find_keyword(name) ==
    CASE Normalize(name) = "kwa" -> KwA
      [] name \in {"LibA.KwA", "LibB.KwA"} -> KwA
      [] name \in Wrappers -> WrapperDoc(name)
      [] name = "BuiltIn.Run Keywords" -> WrapperDoc("Run Keywords")
      [] OTHER -> NoKeyword

\* What a search produces: the locations yielded (token positions), and the
\* invocations handed to get_keyword_references_from_tokens, in call order,
\* each with the position of the wrapper token whose unwrapping fed it (0 for
\* the node's own invocation).
Nil == [locs |-> <<>>, fed |-> <<>>]
Join(a, b) == [locs |-> a.locs \o b.locs, fed |-> a.fed \o b.fed]
Yield(t) == [locs |-> <<t.at>>, fed |-> <<>>]
Call(t, args, unesc, by) ==
    [locs |-> <<>>, fed |-> <<[name |-> t, args |-> args, unescape |-> unesc, by |-> by]>>]

\* Position of the first token of s whose value is in M, 0 if there is none.
FirstOf(s, M) ==
    IF \E k \in 1..Len(s) : s[k].v \in M
    THEN CHOOSE k \in 1..Len(s) : s[k].v \in M /\ \A j \in 1..(k - 1) : s[j].v \notin M
    ELSE 0
\* Faulty variant: the slice keeps the whole list.
From_Whole(s, k) == s

\* arguments[k:] of the source (k counted from 1 here).
From(s, k) == SubSeq(s, k, Len(s))

RECURSIVE get_keyword_references_from_tokens(_, _, _, _, _)
RECURSIVE match_pairs(_, _, _, _, _, _)
RECURSIVE get_keyword_references_from_any_run_keyword(_, _, _)
RECURSIVE run_keywords(_, _, _, _)
RECURSIVE run_keyword_if(_, _, _)

\* The `while arguments` loop of the run-keywords branch.
run_keywords(kw_doc, kw_token, arguments, has_separator) ==
    IF arguments = <<>> THEN Nil
    ELSE LET t == Head(arguments)
             rest == Tail(arguments)
             k == FirstOf(rest, {"AND"})
             args == IF k > 0 THEN SubSeq(rest, 1, k - 1)
                     ELSE IF has_separator THEN rest ELSE <<>>
             left == IF k > 0 THEN From(rest, k + 1) ELSE rest
         IN IF t.v = "AND"
            THEN run_keywords(kw_doc, kw_token, rest, has_separator)
            ELSE Join(IF is_not_variable_token(t)
                      THEN get_keyword_references_from_tokens(kw_doc, t, args, TRUE, kw_token.at)
                      ELSE Nil,
                      run_keywords(kw_doc, kw_token, left, has_separator \/ k > 0))

\* The `while arguments` loop of the run-keyword-if branch.
run_keyword_if(kw_doc, kw_token, arguments) ==
    IF arguments = <<>> THEN Nil
    ELSE LET t == Head(arguments)
             rest == Tail(arguments)
             k == FirstOf(rest, {"ELSE", "ELSE IF"})
             args == IF k > 0 THEN SubSeq(rest, 1, k - 1) ELSE <<>>
             left == IF k = 0 THEN rest
                     ELSE IF rest[k].v = "ELSE IF" THEN From(rest, k + 2)
                     ELSE From(rest, k + 1)
         IN IF t.v \in {"ELSE", "ELSE IF"}
            THEN run_keyword_if(kw_doc, kw_token, rest)
            ELSE Join(IF is_not_variable_token(t)
                      THEN get_keyword_references_from_tokens(kw_doc, t, args, TRUE, kw_token.at)
                      ELSE Nil,
                      run_keyword_if(kw_doc, kw_token, left))

\* Faulty variant: the first argument is fed whatever it is.
plain_target_Unchecked(arguments) == Len(arguments) > 0

\* `len(arguments) > 0 and is_not_variable_token(arguments[0])`: a plain
\* wrapper has a target to feed.
plain_target(arguments) == Len(arguments) > 0 /\ is_not_variable_token(arguments[1])

\* get_keyword_references_from_any_run_keyword: the wrapper is resolved by
\* the token's text and its arguments are read according to its kind.
\* Sequences start at 1 here: arguments[0] of the source is arguments[1],
\* arguments[1] is arguments[2] and arguments[cond_count] is arguments[n + 1].
get_keyword_references_from_any_run_keyword(kw_doc, kw_token, arguments) ==
    IF kw_token = NoToken \/ ~is_not_variable_token(kw_token) THEN Nil
    ELSE LET kw == find_keyword(kw_token.v)
             n == kw.conds
         IN IF kw = NoKeyword \/ kw.kind \notin {"run_keyword", "run_keyword_with_condition",
                                                 "run_keywords", "run_keyword_if"}
            THEN Nil
            ELSE IF kw.kind = "run_keyword" /\ plain_target(arguments)
            THEN get_keyword_references_from_tokens(kw_doc, arguments[1], Tail(arguments),
                                                    FALSE, kw_token.at)
            ELSE IF kw.kind = "run_keyword_with_condition" /\ Len(arguments) > n
                    /\ is_not_variable_token(arguments[2])
            THEN get_keyword_references_from_tokens(kw_doc, arguments[n + 1],
                                                    From(arguments, n + 2), TRUE, kw_token.at)
            ELSE IF kw.kind = "run_keywords"
            THEN run_keywords(kw_doc, kw_token, arguments, FALSE)
            ELSE IF kw.kind = "run_keyword_if" /\ Len(arguments) > 1
            THEN run_keyword_if(kw_doc, kw_token, Tail(arguments))
            ELSE Nil

\* Faulty variant: the owner of a qualified name is not looked up.
owner_rejected_Never(lib) == FALSE

\* `if lib is not None` and its matcher is neither among the namespace's
\* library matchers nor among its resource matchers: `continue`.
owner_rejected(lib) == lib # None /\ Normalize(lib) \notin ImportedMatchers

\* The body of `for lib, name in iter_over_keyword_names_and_owners(kw_name)`
\* from the i-th pair on.
match_pairs(kw_doc, kw_token, arguments, kw_name, pairs, i) ==
    IF i > Len(pairs) THEN Nil
    ELSE LET lib == pairs[i].lib
             name == pairs[i].name
             later == match_pairs(kw_doc, kw_token, arguments, kw_name, pairs, i + 1)
         IN IF owner_rejected(lib)
            THEN later
            ELSE Join(Join(IF Normalize(name) = Normalize(kw_doc.name)
                              /\ find_keyword(kw_name) # NoKeyword
                              /\ find_keyword(kw_name) = kw_doc
                           THEN Yield(kw_token)
                           ELSE Nil,
                           IF Normalize(name) \in ALL_RUN_KEYWORDS_MATCHERS /\ arguments # <<>>
                           THEN get_keyword_references_from_any_run_keyword(kw_doc, kw_token,
                                                                            arguments)
                           ELSE Nil),
                      later)

\* get_keyword_references_from_tokens, called by `by`: nothing for a missing
\* or variable name token; otherwise every owner/name reading of the text is
\* tried.
get_keyword_references_from_tokens(kw_doc, kw_token, arguments, unescape_kw_token, by) ==
    Join(Call(kw_token, arguments, unescape_kw_token, by),
         IF kw_token # NoToken /\ is_not_variable_token(kw_token)
         THEN LET kw_name == IF unescape_kw_token THEN unescape(kw_token.v) ELSE kw_token.v
              IN match_pairs(kw_doc, kw_token, arguments, kw_name,
                             iter_over_keyword_names_and_owners(kw_name), 1)
         ELSE Nil)

NotSearched == [locs |-> <<>>, fed |-> <<>>]

\* One KeywordCall node met by _find_keyword_references_in_namespace while
\* it looks for uses of KwA.
search_node ==
    /\ out = NotSearched
    /\ out' = get_keyword_references_from_tokens(KwA, node.kw, node.args, FALSE, 0)
    /\ UNCHANGED <<eventVars, lateVars, refVars, poolVars, typeVars, node>>

\* ------------------------------------------------ the reference engine (collect)
\* The statement types of the syntax tree the part meets, with their bases,
\* and the types it has a references_<type> method for.  Setup is a Fixture;
\* Section and Keyword are blocks, not statements, and have no tokens.
StatementBases ==
    [t \in {"object", "AST", "Statement", "Block", "Section", "Keyword", "KeywordName",
            "KeywordCall", "Fixture", "Setup", "Variable", "Arguments", "ForHeader"} |->
        CASE t = "object" -> <<>>
          [] t = "AST" -> <<"object">>
          [] t \in {"Statement", "Block"} -> <<"AST">>
          [] t \in {"Section", "Keyword"} -> <<"Block">>
          [] t = "Setup" -> <<"Fixture">>
          [] OTHER -> <<"Statement">>]
StatementAttrs ==
    [t \in DOMAIN StatementBases |->
        IF t \in {"KeywordName", "KeywordCall", "Fixture"} THEN "method" ELSE "none"]

\* isinstance(node, t)
isinstance(n, t) == n.type = t \/ t \in SuperTypes(StatementBases, n.type)

\* A statement: its type, its first token and the tokens behind it.
Stmt(type, top, vals) ==
    [type |-> type, kw |-> Token(top, 1),
     args |-> [i \in 1..Len(vals) |-> Token(vals[i], i + 1)]]

\* A block node: it has no tokens of its own.
Block(type) == [type |-> type, kw |-> NoToken, args |-> <<>>]

\* The files under the workspace folder, as the nodes iter_nodes gives.  F1
\* is a suite that imports the resource LibA and declares the variable ${x};
\* LibA declares the keyword KwA.  BuiltIn is outside the folder.  F1 has
\* two keyword blocks (nodes 6 and 9) that each declare their own ${a}, an
\* argument and a loop variable, and a section behind them whose setup names
\* ${a} outside every block; LibA has a keyword block (node 4) with an
\* argument ${a} of its own.
Files == <<"F1", "LibA">>
Workspace ==
    [f \in Range(Files) |->
        IF f = "F1"
        THEN <<Stmt("Variable", "${x}", <<"arg1">>),
               Stmt("KeywordCall", "KwA", <<"${x}">>),
               Stmt("Setup", "Run Keyword", <<"KwA">>),
               Stmt("KeywordCall", "LibC.KwA", <<"arg1">>),
               Block("Section"),
               Block("Keyword"),
               Stmt("Arguments", "[Arguments]", <<"${a}">>),
               Stmt("KeywordCall", "arg1", <<"${a}">>),
               Block("Keyword"),
               Stmt("ForHeader", "FOR", <<"${a}">>),
               Stmt("KeywordCall", "KwA", <<"${a}">>),
               Block("Section"),
               Stmt("Setup", "arg1", <<"${a}">>)>>
        ELSE <<Stmt("KeywordName", "KwA", <<>>),
               Stmt("KeywordCall", "arg1", <<"${x}">>),
               Stmt("KeywordCall", "kw_a", <<"arg1">>),
               Block("Keyword"),
               Stmt("Arguments", "[Arguments]", <<"${a}">>),
               Stmt("KeywordCall", "arg1", <<"${a}">>)>>]

\* The syntax tree: the keyword block whose body holds node i of file f, 0
\* for a node outside every block.
Parent(f, i) ==
    IF f = "F1" THEN (IF i \in {7, 8} THEN 6 ELSE IF i \in {10, 11} THEN 9 ELSE 0)
    ELSE (IF i \in {5, 6} THEN 4 ELSE 0)

\* Location(uri, range): the file, and the token by its node and position.
Location(f, n, at) == [file |-> f, node |-> n, at |-> at]
NoLocation == Location(None, 0, 0)

\* Optional[List[Location]]: None, or a list.
Absent == [some |-> FALSE, locs |-> <<>>]
Some(l) == [some |-> TRUE, locs |-> l]

\* keyword.source and the location of the keyword's definition.
DeclarationOf(kw) ==
    IF kw = KwA THEN Location("LibA", 1, 1) ELSE Location("BuiltIn", 0, 0)

\* Variable definitions: the variable ${x} of F1's variable section, and the
\* ${a} that the statement at node i of file f declares, an argument or (in
\* a loop header) a local variable.  Two definitions are the same only if
\* they are declared at the same place.
VarX == [name |-> "${x}", source |-> "F1", range |-> Location("F1", 1, 1),
         kind |-> "variable"]
VarA(f, i) ==
    [name |-> "${a}", source |-> f, range |-> Location(f, i, 2),
     kind |-> IF Workspace[f][i].type = "Arguments" THEN "argument" ELSE "local"]
NoVariable == [name |-> None, source |-> None, range |-> NoLocation, kind |-> None]

\* namespace.find_variable(name, [block, node], position) in file f: ${a} is
\* the one its block declares and is unknown outside a block; ${x} is the
\* suite's variable, which the resource LibA does not see.
find_variable(f, v, block) ==
    IF f = "F1" /\ v = "${x}" THEN VarX
    ELSE IF v = "${a}" /\ block # 0
    THEN VarA(f, CHOOSE i \in 1..Len(Workspace[f]) :
                    Parent(f, i) = block /\ Workspace[f][i].type \in {"Arguments", "ForHeader"})
    ELSE NoVariable

\* The sub-tokens of type VARIABLE that tokenize_variables gives for a token.
variable_sub_tokens(t) == IF t # NoToken /\ t.v \in VariableNames THEN <<t>> ELSE <<>>

\* result.extend(e) for every e of parts.
RECURSIVE extend(_)
extend(parts) == IF parts = <<>> THEN <<>> ELSE Head(parts) \o extend(Tail(parts))

\* _find_keyword_references_in_file: every KeywordCall and Fixture node of
\* the file goes through the match logic.  Both files import the owner of
\* every keyword that is searched, so the pre-filter lets them pass.
find_keyword_references_in_file(kw_doc, f) ==
    extend([i \in 1..Len(Workspace[f]) |->
              LET n == Workspace[f][i]
                  r == get_keyword_references_from_tokens(kw_doc, n.kw, n.args, FALSE, 0)
              IN IF isinstance(n, "KeywordCall") \/ isinstance(n, "Fixture")
                 THEN [k \in 1..Len(r.locs) |-> Location(f, i, r.locs[k])]
                 ELSE <<>>])

\* Faulty variant: the first failed unit ends the collection.
contributions_UntilFailure(units, failing, found_in) ==
    [j \in 1..Len(units) |->
        IF \E k \in 1..j : units[k] \in failing THEN <<>> ELSE found_in[units[j]]]

\* asyncio.gather(*futures, return_exceptions=True) and the loop over its
\* results: a unit that raised is logged and skipped, the list a unit
\* returned is taken.  found_in[f] is what the unit of file f returns if it
\* does not fail.
contributions(units, failing, found_in) ==
    [j \in 1..Len(units) |-> IF units[j] \in failing THEN <<>> ELSE found_in[units[j]]]

\* _find_keyword_references: the empty list without an owning folder, the
\* matches of every file under the folder otherwise.
find_keyword_references(req, kw_doc) ==
    IF ~req.folder THEN <<>>
    ELSE extend(contributions(Files, req.failing,
                              [f \in Range(Files) |-> find_keyword_references_in_file(kw_doc, f)]))

\* Faulty variant: the block is not forgotten at a section.
track_block_NoReset(n, i, current_block) ==
    IF isinstance(n, "Keyword") THEN i ELSE current_block

\* current_block behind node i: None at a Section, the node itself if it is
\* a test case or keyword block, unchanged otherwise.
track_block(n, i, current_block) ==
    IF isinstance(n, "Section") THEN 0
    ELSE IF isinstance(n, "Keyword") THEN i
    ELSE current_block

\* _find_variable_references_in_file from node i on: every VARIABLE sub-token
\* of every token of a node that resolves to the variable, through the block
\* the walk is in and the node.
RECURSIVE walk_variables(_, _, _, _)
walk_variables(variable, f, i, current_block) ==
    IF i > Len(Workspace[f]) THEN <<>>
    ELSE LET n == Workspace[f][i]
             block == track_block(n, i, current_block)
             toks == IF isinstance(n, "Statement") THEN <<n.kw>> \o n.args ELSE <<>>
             subs == extend([k \in 1..Len(toks) |-> variable_sub_tokens(toks[k])])
             hits == SelectSeq(subs, LAMBDA t : find_variable(f, t.v, block) = variable)
         IN [k \in 1..Len(hits) |-> Location(f, i, hits[k].at)]
            \o walk_variables(variable, f, i + 1, block)

find_variable_references_in_file(variable, f) == walk_variables(variable, f, 1, 0)

\* Faulty variant: every variable is searched in every file.
scope_limited_Never(variable) == FALSE

\* isinstance(variable, (ArgumentDefinition, LocalVariableDefinition))
scope_limited(variable) == variable.kind \in {"argument", "local"}

\* The files a per-file search is launched for: the requested document for a
\* scope-limited variable, every file under the folder otherwise.
variable_units(req, variable) ==
    IF scope_limited(variable) THEN <<req.document>> ELSE Files

\* _find_variable_references: the empty list without an owning folder, what
\* the launched units found otherwise.
find_variable_references(req, variable) ==
    IF ~req.folder THEN <<>>
    ELSE extend(contributions(variable_units(req, variable), req.failing,
                              [f \in Range(Files) |->
                                  find_variable_references_in_file(variable, f)]))

\* The declaration, if asked for, and the references behind it.
with_declaration(req, decl, refs) ==
    Some((IF req.include_declaration THEN <<decl>> ELSE <<>>) \o refs)

\* references_KeywordName: the keyword the header names, with the header's
\* name token as its declaration.
references_KeywordName(n, req) ==
    IF ~req.namespace THEN Absent
    ELSE LET keyword == find_keyword(n.kw.v)
         IN IF keyword # NoKeyword
            THEN with_declaration(req, Location(DeclarationOf(keyword).file, req.node, n.kw.at),
                                  find_keyword_references(req, keyword))
            ELSE Absent

\* get_keyworddoc_and_token_from_position: the keyword of the name token
\* under the position, or the keyword a plain wrapper is given as argument.
get_keyworddoc_and_token_from_position(n, at) ==
    IF at = 1 /\ is_not_variable_token(n.kw) THEN find_keyword(n.kw.v)
    ELSE IF at = 2 /\ find_keyword(n.kw.v).kind = "run_keyword" /\ plain_target(n.args)
         THEN find_keyword(n.args[1].v)
         ELSE NoKeyword

\* references_KeywordCall
references_KeywordCall(n, req) ==
    IF ~req.namespace THEN Absent
    ELSE LET keyword == get_keyworddoc_and_token_from_position(n, req.at)
         IN IF keyword # NoKeyword
            THEN with_declaration(req, DeclarationOf(keyword),
                                  find_keyword_references(req, keyword))
            ELSE Absent

\* references_Fixture: as references_KeywordCall, on the fixture's name.
references_Fixture(n, req) == references_KeywordCall(n, req)

\* _references_default: the variable whose token covers the position.
references_default(n, req) ==
    IF ~req.namespace \/ ~isinstance(n, "Statement") THEN Absent
    ELSE LET toks == <<n.kw>> \o n.args
             subs == variable_sub_tokens(toks[req.at])
             variable == IF subs = <<>> THEN NoVariable
                         ELSE find_variable(req.document, subs[1].v,
                                            Parent(req.document, req.node))
         IN IF variable # NoVariable
            THEN Some((IF req.include_declaration /\ variable.source # None
                       THEN <<variable.range>> ELSE <<>>)
                      \o find_variable_references(req, variable))
            ELSE Absent

\* await method(result_node, document, position, context)
call_method(method, n, req) ==
    CASE method = "KeywordName" -> references_KeywordName(n, req)
      [] method = "KeywordCall" -> references_KeywordCall(n, req)
      [] method = "Fixture" -> references_Fixture(n, req)
      [] OTHER -> Absent

\* Faulty variant: an empty list counts as no answer.
handler_answered_Truthy(result) == result.some /\ result.locs # <<>>

\* `if result is not None`
handler_answered(result) == result # Absent

\* The body of collect's run(): what is returned, the method _find_method
\* gave, what it returned, and whether _references_default ran.
NotAnswered ==
    [done |-> FALSE, ret |-> Absent, method |-> None, result |-> Absent, default |-> FALSE]
run(req) ==
    IF req.node = 0
    THEN [done |-> TRUE, ret |-> Absent, method |-> None, result |-> Absent, default |-> FALSE]
    ELSE LET n == Workspace[req.document][req.node]
             method == find_method(n.type).method
             result == IF method # None THEN call_method(method, n, req) ELSE Absent
         IN IF method # None /\ handler_answered(result)
            THEN [done |-> TRUE, ret |-> result, method |-> method, result |-> result,
                  default |-> FALSE]
            ELSE [done |-> TRUE, ret |-> references_default(n, req), method |-> method,
                  result |-> result, default |-> TRUE]

\* collect(sender, document, position, context)
collect ==
    /\ ~response.done
    /\ response' = run(request)
    /\ UNCHANGED <<eventVars, lateVars, poolVars, typeVars, matchVars, request>>

\* ------------------------------------- the folding-range capability
\* A fresh ServerCapabilities object: folding_range_provider is not set.
NotExtended == [called |-> FALSE, folding_range_provider |-> FALSE]

\* FoldingRangeProtocolPart.extend_capabilities(capabilities) on instance
\* obj: the dispatcher is fetched through the descriptor and the length of
\* its listeners set is tested, without the lock.
extend_capabilities(obj) ==
    /\ ~capabilities.called
    /\ Access(obj)
    /\ capabilities' =
          [called |-> TRUE,
           folding_range_provider |->
              IF Cardinality(listeners[DescriptorGet(obj).val.id]) # 0 THEN TRUE
              ELSE capabilities.folding_range_provider]
    /\ UNCHANGED <<strategy, regVars, dispVars, poolVars, typeVars, matchVars, refVars,
                   walk, consumer, callbacks, worker>>

\* ------------------------------- the lazy sequence and the completion callback
\* The caller of AsyncTaskingEventIterator / AsyncThreadingEventIterator reads
\* the async generator _notify returns; it has not closed it.
NoConsumer == [state |-> "reading", taken |-> 0, results |-> 0]

\* The generator is suspended at `yield await a`: the completion retrieved
\* last gave an entry, and as_completed has more to give.
AtYield ==
    /\ dState = "wait"
    /\ dTaken > 0
    /\ Yielded(dCompleted[dTaken], dIgnore) # <<>>

\* The caller stops reading and calls aclose(): GeneratorExit is raised at
\* the yield, inside `try ... except BaseException`.  Without
\* ignore_exceptions the handler yields the GeneratorExit, and aclose() raises
\* RuntimeError("async generator ignored GeneratorExit"); with it the
\* handler does nothing and the loop goes on to the next `await a`.
close ==
    /\ Concurrent
    /\ consumer.state = "reading"
    /\ AtYield
    /\ consumer' = [state |-> "closing", taken |-> dTaken, results |-> Len(dResults)]
    /\ IF dIgnore
       THEN /\ dState' = "closing"
            /\ UNCHANGED dErr
       ELSE /\ dState' = "failed"
            /\ dErr' = "RuntimeError"
    /\ UNCHANGED <<strategy, regVars, descVars, nDisp, dObj, dDisp, dIgnore, dSize, dSnap,
                   dMutated, dSeen, dVisited, dCompleted, dTaken, dSlots, dResults, dCancels,
                   poolVars, typeVars, matchVars, refVars, walk, capabilities, callbacks,
                   worker>>

\* The generator that swallowed GeneratorExit retrieves the next completion:
\* a value is yielded, which aclose() answers with RuntimeError; an error is
\* dropped and the loop goes on; after the last one the generator returns.
close_retrieve ==
    /\ dState = "closing"
    /\ dSlots > 0
    /\ dTaken < Len(dCompleted)
    /\ dTaken' = dTaken + 1
    /\ dSlots' = dSlots - 1
    /\ IF NextCompletion.ok
       THEN /\ dState' = "failed"
            /\ dErr' = "RuntimeError"
       ELSE /\ dState' = IF dSlots = 1 THEN "closed" ELSE "closing"
            /\ UNCHANGED dErr
    /\ UNCHANGED <<strategy, regVars, descVars, nDisp, dObj, dDisp, dIgnore, dSize, dSnap,
                   dMutated, dSeen, dVisited, dCompleted, dResults, dCancels,
                   poolVars, typeVars, matchVars, refVars, lateVars>>

\* One call of result_callback.
CallbackCall(l, result, error) == [l |-> l, result |-> result, error |-> error]

\* _done(f), the done callback of listener l's future:
\*   try: result_callback(f.result(), f.exception())
\*   except KeyboardInterrupt: raise
\*   except BaseException as e: result_callback(None, e)
\* f.result() raises the listener's error, so a failed listener gives the
\* one call of the handler; an error raised by result_callback itself in the
\* first call is caught by the same handler.
done_calls(l, ok, raises) ==
    IF ok
    THEN <<CallbackCall(l, "value", "None")>>
         \o (IF raises THEN <<CallbackCall(l, "None", "CallbackError")>> ELSE <<>>)
    ELSE <<CallbackCall(l, "None", "ListenerError")>>

\* The listeners whose done callback has run.
Notified == {callbacks[k].l : k \in 1..Len(callbacks)}

\* The event loop runs the done callback of a completed future; raises says
\* whether result_callback raises in its first call.
done_callback(l, raises) ==
    /\ Concurrent
    /\ l \notin Notified
    /\ \E k \in 1..Len(dCompleted) :
          /\ dCompleted[k].l = l
          /\ callbacks' = callbacks \o done_calls(l, dCompleted[k].ok, raises)
    /\ UNCHANGED <<eventVars, poolVars, typeVars, matchVars, refVars, walk, capabilities,
                   consumer, worker>>

\* ------------------------------- the private event loops (thread strategy)
\* worker[l]: the function run(loop) handed to the pool for listener l (run),
\* the listener's coroutine on the private loop (coro), the future
\* _run_in_asyncio_thread returns to the caller (result) and the loop_stop
\* coroutine (stop).  The pool has a free worker for every listener.
NotSubmitted == [run |-> "none", coro |-> "none", result |-> "none", stop |-> "none"]
NoWorker == [l \in Listeners |-> NotSubmitted]

\* _run_in_asyncio_thread on the caller's loop, without suspension: a new
\* loop, run(loop) submitted to the pool, the coroutine posted to the loop
\* with run_coroutine_threadsafe, its future wrapped, stop_loop attached.
run_in_asyncio_thread(l) ==
    /\ worker[l] = NotSubmitted
    /\ worker' = [worker EXCEPT ![l] = [run |-> "queued", coro |-> "posted",
                                         result |-> "pending", stop |-> "none"]]
    /\ UNCHANGED <<eventVars, poolVars, typeVars, matchVars, refVars, walk, capabilities,
                   consumer, callbacks>>

\* A pool worker takes run(loop): set_event_loop(loop), loop.run_forever().
thread_run(l) ==
    /\ worker[l].run = "queued"
    /\ worker' = [worker EXCEPT ![l].run = "forever"]
    /\ UNCHANGED <<eventVars, poolVars, typeVars, matchVars, refVars, walk, capabilities,
                   consumer, callbacks>>

\* The private loop starts the listener's coroutine.
listener_start(l) ==
    /\ worker[l].run = "forever"
    /\ worker[l].coro = "posted"
    /\ worker' = [worker EXCEPT ![l].coro = "running"]
    /\ UNCHANGED <<eventVars, poolVars, typeVars, matchVars, refVars, walk, capabilities,
                   consumer, callbacks>>

\* The coroutine returns or raises.
listener_done(l, outcome) ==
    /\ worker[l].run = "forever"
    /\ worker[l].coro = "running"
    /\ worker' = [worker EXCEPT ![l].coro = outcome]
    /\ UNCHANGED <<eventVars, poolVars, typeVars, matchVars, refVars, walk, capabilities,
                   consumer, callbacks>>

\* wrap_future: the caller's loop copies the outcome into the result future.
result_done(l) ==
    /\ worker[l].result = "pending"
    /\ worker[l].coro \in {"value", "error", "cancelled"}
    /\ worker' = [worker EXCEPT ![l].result = worker[l].coro]
    /\ UNCHANGED <<eventVars, poolVars, typeVars, matchVars, refVars, walk, capabilities,
                   consumer, callbacks>>

\* The caller cancels the result future; the cancellation is passed on to
\* the coroutine's task.
result_cancel(l) ==
    /\ worker[l].result = "pending"
    /\ worker' = [worker EXCEPT ![l].result = "cancelled"]
    /\ UNCHANGED <<eventVars, poolVars, typeVars, matchVars, refVars, walk, capabilities,
                   consumer, callbacks>>

\* The private loop delivers the cancellation to the task.
task_cancel(l) ==
    /\ worker[l].run = "forever"
    /\ worker[l].result = "cancelled"
    /\ worker[l].coro \in {"posted", "running"}
    /\ worker' = [worker EXCEPT ![l].coro = "cancelled"]
    /\ UNCHANGED <<eventVars, poolVars, typeVars, matchVars, refVars, walk, capabilities,
                   consumer, callbacks>>

\* Faulty variant: the done callback does not post loop_stop.
stop_loop_Nothing(l) ==
    /\ worker[l].result \in {"value", "error", "cancelled"}
    /\ worker[l].stop = "none"
    /\ worker' = [worker EXCEPT ![l].stop = "done"]
    /\ UNCHANGED <<eventVars, poolVars, typeVars, matchVars, refVars, walk, capabilities,
                   consumer, callbacks>>

\* stop_loop, the done callback of the result future, on the caller's loop:
\* run_coroutine_threadsafe(loop_stop(), loop=loop).
stop_loop(l) ==
    /\ worker[l].result \in {"value", "error", "cancelled"}
    /\ worker[l].stop = "none"
    /\ worker' = [worker EXCEPT ![l].stop = "posted"]
    /\ UNCHANGED <<eventVars, poolVars, typeVars, matchVars, refVars, walk, capabilities,
                   consumer, callbacks>>

\* loop_stop on the private loop: loop.stop(); run_forever returns at the
\* end of the iteration, whatever the coroutine's task is doing.
loop_stop(l) ==
    /\ worker[l].run = "forever"
    /\ worker[l].stop = "posted"
    /\ worker' = [worker EXCEPT ![l].stop = "done", ![l].run = "stopped"]
    /\ UNCHANGED <<eventVars, poolVars, typeVars, matchVars, refVars, walk, capabilities,
                   consumer, callbacks>>

\* `finally: loop.close()`; run returns and the worker is back in the pool.
loop_close(l) ==
    /\ worker[l].run = "stopped"
    /\ worker' = [worker EXCEPT ![l].run = "closed"]
    /\ UNCHANGED <<eventVars, poolVars, typeVars, matchVars, refVars, walk, capabilities,
                   consumer, callbacks>>


\* ------------------------------------------ cancellation of the per-file walks
\* walk: the search that walks a file (kind), the node it visits next (at),
\* whether the request's cancellation was signalled, the nodes processed
\* since the signal, and how the walk ended.
NotWalking ==
    [kind |-> "none", file |-> "F1", at |-> 0, cancelled |-> FALSE, since |-> 0,
     end |-> "none"]
Walking(kind, f) ==
    [kind |-> kind, file |-> f, at |-> 1, cancelled |-> FALSE, since |-> 0, end |-> "none"]

\* The walk is inside `async for node in iter_nodes(...)`, with a node left.
InWalk(kind) ==
    walk.kind = kind /\ walk.end = "none" /\ walk.at <= Len(Workspace[walk.file])

\* check_canceled(): raises CancelledError once the cancellation of the
\* request was signalled.
check_canceled(w) == w.cancelled

\* The body of the loop for the node at w.at, and the step to the next node.
process_node(w) ==
    [w EXCEPT !.at = w.at + 1, !.since = IF w.cancelled THEN w.since + 1 ELSE 0]

\* The request is cancelled while a search walks a file.
signal_cancel ==
    /\ walk.kind # "none"
    /\ walk.end = "none"
    /\ ~walk.cancelled
    /\ walk' = [walk EXCEPT !.cancelled = TRUE]
    /\ UNCHANGED <<eventVars, poolVars, typeVars, matchVars, refVars, capabilities, consumer,
                   callbacks, worker>>

\* One turn of the loop of _find_keyword_references_in_namespace:
\* `await check_canceled()`, then the node is matched.
keyword_walk_step ==
    /\ InWalk("keyword")
    /\ walk' = IF check_canceled(walk) THEN [walk EXCEPT !.end = "CancelledError"]
               ELSE process_node(walk)
    /\ UNCHANGED <<eventVars, poolVars, typeVars, matchVars, refVars, capabilities, consumer,
                   callbacks, worker>>

\* One turn of the loop of _find_variable_references_in_file: the block is
\* tracked and the node's tokens are resolved.
variable_walk_step ==
    /\ InWalk("variable")
    /\ walk' = process_node(walk)
    /\ UNCHANGED <<eventVars, poolVars, typeVars, matchVars, refVars, capabilities, consumer,
                   callbacks, worker>>

\* iter_nodes is exhausted: `return result`.
walk_return ==
    /\ walk.kind # "none"
    /\ walk.end = "none"
    /\ walk.at > Len(Workspace[walk.file])
    /\ walk' = [walk EXCEPT !.end = "returned"]
    /\ UNCHANGED <<eventVars, poolVars, typeVars, matchVars, refVars, capabilities, consumer,
                   callbacks, worker>>

\* ------------------------------------------------------------ specification
\* The worker pool before any dispatch (AsyncThreadingEventResultIteratorBase.__init__).
PoolInit ==
    /\ executor = NoPool
    /\ nPools = 0
    /\ caller = [c \in Callers |-> Outside]

\* One type hierarchy and one set of reference methods, nothing asked yet.
\* attrs: "none" (no such attribute), "method" (a callable) or "data".
TypeInit(b, a) ==
    /\ bases = b
    /\ attrs = a
    /\ cls = None
    /\ found = NotAsked

\* The hierarchy of the statements the part has methods for: a statement
\* type A, a sub-type B with a second base, and C below B.
TypeRest ==
    TypeInit([t \in TypeNames |->
                 CASE t = "object" -> <<>>
                   [] t = "AST" -> <<"object">>
                   [] t = "A" -> <<"AST">>
                   [] t = "B" -> <<"A", "object">>
                   [] t = "C" -> <<"B">>],
             [t \in TypeNames |-> IF t = "A" THEN "method" ELSE "none"])

\* A node: its name token and argument tokens, by their values.
NodeOf(top, vals) ==
    [kw |-> Token(top, 1), args |-> [i \in 1..Len(vals) |-> Token(vals[i], i + 1)]]

MatchInit(n) ==
    /\ node = n
    /\ out = NotSearched

MatchRest == MatchInit(NodeOf("KwA", <<>>))

\* The positions a request can name in document f: no enclosing node (0), or
\* a node and one of its tokens (1 for a node without tokens).
Positions(f) ==
    {<<0, 1>>} \cup
    {p \in (1..Len(Workspace[f])) \X (1..2) :
        p[2] <= IF Workspace[f][p[1]].kw = NoToken THEN 1
                ELSE 1 + Len(Workspace[f][p[1]].args)}

RefInit(req) ==
    /\ request = req
    /\ response = NotAnswered

RefRest ==
    RefInit([document |-> "F1", node |-> 0, at |-> 1, include_declaration |-> FALSE,
             folder |-> TRUE, namespace |-> TRUE, failing |-> {}])

\* No file is being walked.
WalkRest == walk = NotWalking

\* extend_capabilities was not called.
CapRest == capabilities = NotExtended

\* No lazy consumer and no completion callback.
IterRest == consumer = NoConsumer /\ callbacks = <<>>

\* No listener was handed to a pool worker.
WorkerRest == worker = NoWorker

\* The parts of the program outside the dispatch framework, at rest.
EngineRest == PoolInit /\ TypeRest /\ MatchRest /\ RefRest
LateRest == WalkRest /\ CapRest /\ IterRest /\ WorkerRest

Init ==
    /\ strategy \in Strategies
    /\ listeners = [d \in DispIds |-> {}]
    /\ alive = Listeners
    /\ lock = "free"
    /\ th = [t \in Threads |-> Idle]
    /\ event = 0
    /\ nCreated = 0
    /\ ret = Nothing
    /\ removed = {}
    /\ nDisp = 0
    /\ dState = "idle"
    /\ dObj = None
    /\ dDisp = 0
    /\ dIgnore = TRUE
    /\ dSize = 0
    /\ dSnap = {}
    /\ dMutated = FALSE
    /\ dSeen = {}
    /\ dVisited = <<>>
    /\ dCompleted = <<>>
    /\ dTaken = 0
    /\ dSlots = 0
    /\ dResults = <<>>
    /\ dErr = "none"
    /\ dCancels = 0
    /\ PoolInit
    /\ TypeRest
    /\ MatchRest
    /\ RefRest
    /\ LateRest

Next ==
    \/ \E t \in Threads, l \in Listeners : add_acquire(t, l)
    \/ \E t \in Threads : add(t)
    \/ \E t \in Threads, l \in Listeners : remove_acquire(t, l)
    \/ \E t \in Threads : remove(t)
    \/ \E t \in Threads : remove_raise(t)
    \/ \E t \in Threads, l \in Listeners : release_owner(t, l)
    \/ \E t \in Threads : remove_listener(t)
    \/ class_access
    \/ \E obj \in Instances, ign \in BOOLEAN : notify_start(obj, ign)
    \/ notify_size_changed
    \/ \E h \in Listeners : notify_visit(h)
    \/ notify_end_iter
    \/ \E l \in Listeners, ok \in BOOLEAN : listener_returns(l, ok)
    \/ \E l \in Listeners, ok \in BOOLEAN : future_done(l, ok)
    \/ notify_retrieve
    \/ cancel

Spec == Init /\ [][Next]_vars

\* Scheduling: a thread that holds the lock runs on to the end of its `with`
\* block, and a weak-reference callback that waits for the lock gets it if
\* the lock keeps becoming free.
FairSpec ==
    /\ Spec
    /\ \A t \in Threads : WF_vars(add(t))
    /\ \A t \in Threads : WF_vars(remove(t))
    /\ \A t \in Threads : WF_vars(remove_raise(t))
    /\ \A t \in Threads : SF_vars(remove_listener(t))

\* The registry, the descriptor and the dispatch at rest.
DispatchIdle ==
    /\ listeners = [d \in DispIds |-> {}]
    /\ alive = Listeners
    /\ lock = "free"
    /\ th = [t \in Threads |-> Idle]
    /\ event = 0
    /\ nCreated = 0
    /\ ret = Nothing
    /\ removed = {}
    /\ nDisp = 0
    /\ dState = "idle"
    /\ dObj = None
    /\ dDisp = 0
    /\ dIgnore = TRUE
    /\ dSize = 0
    /\ dSnap = {}
    /\ dMutated = FALSE
    /\ dSeen = {}
    /\ dVisited = <<>>
    /\ dCompleted = <<>>
    /\ dTaken = 0
    /\ dSlots = 0
    /\ dResults = <<>>
    /\ dErr = "none"
    /\ dCancels = 0

\* The pool handling of a concurrent-thread dispatcher under dispatches from
\* several execution contexts.
PoolSpecInit ==
    /\ strategy = "thread"
    /\ DispatchIdle
    /\ PoolInit
    /\ TypeRest
    /\ MatchRest
    /\ RefRest
    /\ LateRest

PoolNext ==
    \/ \E c \in Callers, arg \in {NoPool, SuppliedPool} : pool_enter(c, arg)
    \/ \E c \in Callers : pool_create(c)
    \/ \E c \in Callers : pool_read(c)
    \/ \E c \in Callers : pool_leave(c)

PoolSpec == PoolSpecInit /\ [][PoolNext]_vars

\* Syntax dispatch over every hierarchy of the three node types and every
\* assignment of reference attributes (object has none).
TypeSpecInit ==
    /\ strategy = "thread"
    /\ DispatchIdle
    /\ PoolInit
    /\ MatchRest
    /\ RefRest
    /\ LateRest
    /\ \E a \in BasesOver({"object", "AST"}),
          b \in BasesOver({"object", "AST", "A"}),
          c \in BasesOver({"object", "AST", "A", "B"}),
          at \in [TypeNames \ {"object"} -> {"none", "method", "data"}] :
          LET bs == [t \in TypeNames |->
                        CASE t = "object" -> <<>>
                          [] t = "AST" -> <<"object">>
                          [] t = "A" -> a
                          [] t = "B" -> b
                          [] t = "C" -> c]
          IN /\ Linearizable(bs)
             /\ TypeInit(bs, [t \in TypeNames |-> IF t = "object" THEN "none" ELSE at[t]])

TypeNext == \E c \in TypeNames : resolve(c)

TypeSpec == TypeSpecInit /\ [][TypeNext]_vars

\* The argument lists of up to n tokens.
ArgLists(n) == UNION {[1..k -> ArgValues] : k \in 0..n}

\* The keyword-match logic on one node: a wrapper call with any argument
\* list, or a call of another name, whose arguments are not looked at.
MatchSpecInit ==
    /\ strategy = "thread"
    /\ DispatchIdle
    /\ PoolInit
    /\ TypeRest
    /\ RefRest
    /\ LateRest
    /\ \/ \E w \in Wrappers \cup {"BuiltIn.Run Keywords"}, vals \in ArgLists(MaxArgs) :
             MatchInit(NodeOf(w, vals))
       \/ \E v \in PlainNames, vals \in {<<>>, <<"arg1">>} : MatchInit(NodeOf(v, vals))

MatchNext == search_node

MatchSpec == MatchSpecInit /\ [][MatchNext]_vars

\* Every request on the two documents, with and without an owning workspace
\* folder and a namespace, and with every set of files whose search fails.
RefSpecInit ==
    /\ strategy = "thread"
    /\ DispatchIdle
    /\ PoolInit
    /\ MatchRest
    /\ TypeInit(StatementBases, StatementAttrs)
    /\ LateRest
    /\ \E f \in Range(Files), incl \in BOOLEAN, fo \in BOOLEAN, ns \in BOOLEAN :
          \E p \in Positions(f), bad \in SUBSET Range(Files) :
             RefInit([document |-> f, node |-> p[1], at |-> p[2],
                      include_declaration |-> incl, folder |-> fo, namespace |-> ns,
                      failing |-> bad])

RefNext == collect

RefSpec == RefSpecInit /\ [][RefNext]_vars

\* A keyword search or a variable search walks one file of the workspace.
WalkSpecInit ==
    /\ strategy = "thread"
    /\ DispatchIdle
    /\ EngineRest
    /\ CapRest
    /\ IterRest
    /\ WorkerRest
    /\ \E kind \in {"keyword", "variable"}, f \in Range(Files) : walk = Walking(kind, f)

\* The registry of the collect-folding-range dispatcher under add, remove
\* and owner release from two threads, and one call of extend_capabilities.
CapSpecInit ==
    /\ strategy = "thread"
    /\ DispatchIdle
    /\ EngineRest
    /\ LateRest

CapNext ==
    \/ \E t \in Threads, l \in Listeners : add_acquire(t, l)
    \/ \E t \in Threads : add(t)
    \/ \E t \in Threads, l \in Listeners : remove_acquire(t, l)
    \/ \E t \in Threads : remove(t)
    \/ \E t \in Threads : remove_raise(t)
    \/ \E t \in Threads, l \in Listeners : release_owner(t, l)
    \/ \E t \in Threads : remove_listener(t)
    \/ \E obj \in Instances : extend_capabilities(obj)

CapSpec == CapSpecInit /\ [][CapNext]_vars

\* Lazy dispatch with a completion callback on a dispatcher with two
\* registered listeners, read by a caller that may close the sequence after
\* any entry.
IterSpecInit ==
    /\ strategy \in {"task", "thread"}
    /\ listeners = [d \in DispIds |-> IF d = 1 THEN Listeners ELSE {}]
    /\ alive = Listeners
    /\ lock = "free"
    /\ th = [t \in Threads |-> Idle]
    /\ event = 1
    /\ nCreated = 1
    /\ ret = Dispatcher(1)
    /\ removed = {}
    /\ nDisp = 0
    /\ dState = "idle"
    /\ dObj = None
    /\ dDisp = 0
    /\ dIgnore = TRUE
    /\ dSize = 0
    /\ dSnap = {}
    /\ dMutated = FALSE
    /\ dSeen = {}
    /\ dVisited = <<>>
    /\ dCompleted = <<>>
    /\ dTaken = 0
    /\ dSlots = 0
    /\ dResults = <<>>
    /\ dErr = "none"
    /\ dCancels = 0
    /\ EngineRest
    /\ LateRest

IterNext ==
    \/ \E obj \in Instances, ign \in BOOLEAN : notify_start(obj, ign)
    \/ \E h \in Listeners : notify_visit(h)
    \/ notify_end_iter
    \/ \E l \in Listeners, ok \in BOOLEAN : future_done(l, ok)
    \/ notify_retrieve
    \/ close
    \/ close_retrieve
    \/ \E l \in Listeners, raises \in BOOLEAN : done_callback(l, raises)

IterSpec == IterSpecInit /\ [][IterNext]_vars

\* The listeners of one concurrent-thread dispatch on their pool workers.
WorkerSpecInit ==
    /\ strategy = "thread"
    /\ DispatchIdle
    /\ EngineRest
    /\ LateRest

WorkerNext ==
    \E l \in Listeners :
       \/ run_in_asyncio_thread(l)
       \/ thread_run(l)
       \/ listener_start(l)
       \/ \E outcome \in {"value", "error"} : listener_done(l, outcome)
       \/ result_done(l)
       \/ result_cancel(l)
       \/ task_cancel(l)
       \/ stop_loop(l)
       \/ loop_stop(l)
       \/ loop_close(l)

WorkerSpec == WorkerSpecInit /\ [][WorkerNext]_vars

\* Scheduling: a pool worker that was handed run(loop) runs it, a running
\* loop runs the callbacks posted to it, and the caller's loop runs the done
\* callbacks of its futures.  Nothing is assumed about the listeners.
WorkerFairSpec ==
    /\ WorkerSpec
    /\ \A l \in Listeners :
          /\ WF_vars(thread_run(l))
          /\ WF_vars(stop_loop(l))
          /\ WF_vars(loop_stop(l))
          /\ WF_vars(loop_close(l))

WalkNext ==
    \/ signal_cancel
    \/ keyword_walk_step
    \/ variable_walk_step
    \/ walk_return

WalkSpec == WalkSpecInit /\ [][WalkNext]_vars

\* ------------------------------------------------------------------ claims
\* The step invokes listener l.
Invokes(l) == Len(dVisited') = Len(dVisited) + 1 /\ dVisited'[Len(dVisited')] = l

\* Position of listener l in the completion order.
CompletedAt(l) == CHOOSE k \in 1..Len(dCompleted) : dCompleted[k].l = l

Completed == {dCompleted[k].l : k \in 1..Len(dCompleted)}
Failed == {dCompleted[k].l : k \in {j \in 1..Len(dCompleted) : ~dCompleted[j].ok}}
InCriticalSection == {t \in Threads : th[t].op \in {"add", "remove", "KeyError"}}

\* C1: once remove(l) has returned successfully, no dispatch step invokes l
\* until l is added again, in every strategy and however often l had been
\* added before.
C1_RemovedListenerNotInvoked ==
    [][\A l \in Listeners : l \in removed => ~Invokes(l)]_vars

\* A dispatch ran to its end on an unchanged registry, invoked a listener and
\* left out a live one that had been removed before it started.
C1_Witness ==
    /\ dState = "done"
    /\ ~dMutated
    /\ dVisited # <<>>
    /\ \E l \in removed \cap alive : l \notin Range(dVisited)

\* C2: remove of a listener that is not registered (never added, or removed
\* already) raises KeyError, the lock is free once the error has left
\* remove, and the registry is as it was.
C2_RemoveAbsentRaisesNotFound ==
    [][\A t \in Threads :
        /\ (th[t].op = "remove" /\ th[t].l \notin listeners[th[t].d] /\ th'[t].op \notin {"remove", "fin"})
              => (th'[t].op = "KeyError" /\ listeners' = listeners)
        /\ (th'[t].op = "KeyError" /\ th[t].op # "KeyError")
              => (th[t].op = "remove" /\ th[t].l \notin listeners[th[t].d])
        /\ (th[t].op = "KeyError" /\ th'[t].op # "KeyError")
              => (listeners' = listeners /\ (th'[t] = Idle => lock' = "free"))
      ]_vars

\* remove of an already removed listener has raised KeyError.
C2_Witness ==
    \E t \in Threads : th[t].op = "KeyError" /\ th[t].l \in removed

\* C3: a listener whose owner is released is never invoked afterwards, and
\* its dead handle is eventually taken out of the registry by remove_listener.
C3_ReleasedListenerSkippedAndDropped ==
    /\ [][\A l \in Listeners : l \notin alive => ~Invokes(l)]_vars
    /\ \A l \in Listeners : (l \notin alive /\ Registered(l)) ~> ~Registered(l)

\* C4: a dispatch in which a listener raised (registry untouched, request not
\* cancelled) still invokes every other live registered listener and, when
\* it has ended, has delivered the value of each one that returned.
C4_RaisingListenerIsolated ==
    (/\ dState \in {"done", "failed"}
     /\ Failed # {}
     /\ ~dMutated
     /\ dCancels = 0)
    => \A l \in (dSnap \cap alive) \ Failed :
          /\ l \in Range(dVisited)
          /\ l \in Completed => \E k \in 1..Len(dResults) : dResults[k] = Value(l)

\* C5: a concurrent dispatch that has ended with invoked listeners L, of
\* which F raised, has |L \ F| entries and none from F when exceptions are
\* ignored, and otherwise |L| entries with exactly one error entry, from its
\* listener, for each listener of F.
C5_ResultEntries ==
    (Concurrent /\ dState = "done")
    => LET L == Range(dVisited)
           ErrorsOf(f) == {k \in 1..Len(dResults) : dResults[k] = Error(f)}
       IN IF dIgnore
          THEN /\ Len(dResults) = Cardinality(L \ Failed)
               /\ \A k \in 1..Len(dResults) : dResults[k].src \notin Failed
          ELSE /\ Len(dResults) = Cardinality(L)
               /\ \A f \in Failed : Cardinality(ErrorsOf(f)) = 1
               /\ \A k \in 1..Len(dResults) : dResults[k].err => dResults[k].src \in Failed

\* C6: a cancellation delivered to a waiting dispatch ends the dispatch:
\* CancelledError leaves it and it waits for no further listener.
C6_CancellationPropagates ==
    [][dCancels' = dCancels + 1 => dState' = "cancelled"]_vars

\* C7: in direct dispatch at most one invoked listener has not completed, a
\* listener is invoked only when none is running, and the results are the
\* values of the listeners in invocation order.
C7_DirectOneAtATime ==
    strategy = "direct" =>
        /\ Cardinality(dRunning) <= 1
        /\ Len(dVisited) <= Len(dCompleted) + 1
        /\ \A k \in 1..Len(dCompleted) : dCompleted[k].l = dVisited[k]
        /\ \A k \in 1..Len(dResults) : dResults[k] = Value(dVisited[k])

\* A direct dispatch over two listeners has ended with both results.
C7_Witness ==
    strategy = "direct" /\ dState = "done" /\ Len(dResults) = 2

\* C8: in the concurrent strategies the entries of the listeners appear in
\* the order in which the listeners completed.
C8_CompletionOrder ==
    Concurrent =>
        \A i, j \in 1..Len(dResults) :
            (i < j /\ dResults[i].src # 0 /\ dResults[j].src # 0)
            => /\ dResults[i].src \in Completed
               /\ dResults[j].src \in Completed
               /\ CompletedAt(dResults[i].src) < CompletedAt(dResults[j].src)

\* Two listeners completed in the reverse of their submission order and both
\* entries were delivered.
C8_Witness ==
    /\ Concurrent
    /\ dState = "done"
    /\ Len(dResults) = 2
    /\ Len(dVisited) = 2
    /\ dResults[1].src = dVisited[2]
    /\ dResults[2].src = dVisited[1]

\* C9: add and remove exclude each other, and a dispatch is not disturbed by
\* a change of the registry: it does not fail and it visits listeners of the
\* registry it started on only.
C9_DispatchOnSnapshot ==
    /\ Cardinality(InCriticalSection) <= 1
    /\ dErr # "RuntimeError"
    /\ Range(dVisited) \subseteq dSnap

C11_OneOwnedPoolLazily ==
    [][/\ nPools' <= 1
       /\ nPools' # nPools =>
             /\ executor = NoPool
             /\ \E c \in Callers : caller[c].pc = "build" /\ caller[c].arg = NoPool
       /\ \A c \in Callers :
             (caller'[c].pc = "run" /\ caller'[c].arg # NoPool)
             => (caller'[c].exec = caller'[c].arg /\ (caller[c].pc = "idle" => UNCHANGED <<executor, nPools>>))
      ]_vars

\* The types a depth-first walk from t looks at, in order: t, then the walk
\* of each base in declaration order; the walk does not go above the root.
RECURSIVE PreOrder(_)
RECURSIVE PreOrderFrom(_, _)
PreOrderFrom(t, i) ==
    IF i > Len(bases[t]) THEN <<>> ELSE PreOrder(bases[t][i]) \o PreOrderFrom(t, i + 1)
PreOrder(t) == IF t = Root THEN <<t>> ELSE <<t>> \o PreOrderFrom(t, 1)

\* The types of a walk that carry a handler (the root never does).
Handling(w) == {k \in 1..Len(w) : w[k] # Root /\ attrs[w[k]] = "method"}

\* C12: resolve returns the handler of the exact type if there is one,
\* otherwise the first handler on the depth-first walk of the super-types in
\* declaration order, and None if no super-type has one; the root resolves to
\* None whatever is registered, and the search ends after finitely many calls
\* (it looks at a prefix of the walk).
C12_SyntaxDispatch ==
    cls # None =>
        LET w == PreOrder(cls)
            H == Handling(w)
        IN /\ (cls # Root /\ attrs[cls] = "method") => found.method = cls
           /\ cls = Root => found.method = None
           /\ H = {} <=> found.method = None
           /\ H # {} => found.method = w[CHOOSE k \in H : \A j \in H : k <= j]
           /\ found.method # None => found.method \in ({cls} \cup SuperTypes(bases, cls)) \ {Root}
           /\ Len(found.calls) <= Len(w)
           /\ \A k \in 1..Len(found.calls) : found.calls[k] = w[k]

\* The handler came from the second base after the walk of the first base,
\* which reached the root, found none.
C12_Witness ==
    /\ cls # None
    /\ found.method # None
    /\ found.method # cls
    /\ Len(bases[cls]) = 2
    /\ found.method \in {bases[cls][2]} \cup SuperTypes(bases, bases[cls][2])
    /\ found.method \notin {bases[cls][1]} \cup SuperTypes(bases, bases[cls][1])
    /\ Root \in Range(found.calls)

\* The node has been searched.
Searched == out # NotSearched

\* The token of the node at position p.
TokenAt(p) == IF p = 1 THEN node.kw ELSE node.args[p - 1]

\* The invocations fed by the unwrapping of the wrapper token at position p,
\* as <<name token, argument tokens>>.
FedBy(p) ==
    LET S == SelectSeq(out.fed, LAMBDA e : e.by = p)
    IN [k \in 1..Len(S) |-> <<S[k].name, S[k].args>>]

\* The owners a token's text can be read with.
Owners(v) ==
    LET ps == iter_over_keyword_names_and_owners(v)
    IN {ps[k].lib : k \in 1..Len(ps)} \ {None}

\* C16: a location is produced for a qualified name token only if one of its
\* owners normalize-matches a library or resource imported by the searched
\* file, also when the bare name matches the target and the resolver gives
\* the target for the qualified name.
C16_QualifierMustBeImported ==
    Searched =>
        \A k \in 1..Len(out.fed) :
            LET t == out.fed[k].name
            IN (Owners(t.v) # {} /\ t.at \in Range(out.locs))
               => \E o \in Owners(t.v) : Normalize(o) \in ImportedMatchers

\* LibB.KwA was searched: LibB is not imported, KwA matches the target's name
\* and the resolver gives the target, and no location was produced.
C16_Witness ==
    /\ Searched
    /\ node.kw.v = "LibB.KwA"
    /\ find_keyword("LibB.KwA") = KwA
    /\ Normalize("KwA") = Normalize(KwA.name)
    /\ out.locs = <<>>

\* C17: no location is produced for a token that is a variable reference,
\* and a plain run-keyword wrapper whose first argument is a variable
\* reference feeds nothing to the match logic, at any depth.
C17_VariableTargetNotUnwrapped ==
    Searched =>
        /\ \A k \in 1..Len(out.locs) : TokenAt(out.locs[k]).v # "${x}"
        /\ \A k \in 1..Len(out.fed) :
              LET e == out.fed[k]
              IN (e.name.v = "Run Keyword" /\ e.args # <<>> /\ e.args[1].v = "${x}")
                 => FedBy(e.name.at) = <<>>
        /\ \A k \in 1..Len(out.fed) : out.fed[k].by # 0 => TokenAt(out.fed[k].by).v # "${x}"

\* `Run Keyword    Run Keyword    ${x}    KwA` was searched: the inner wrapper
\* was fed, its variable target was not, and KwA behind it gave no location.
C17_Witness ==
    /\ Searched
    /\ node.kw.v = "Run Keyword"
    /\ Len(node.args) = 3
    /\ node.args[1].v = "Run Keyword"
    /\ node.args[2].v = "${x}"
    /\ node.args[3].v = "KwA"
    /\ Len(out.fed) = 2
    /\ out.locs = <<>>

\* The segments of s between the tokens with a value in M.
RECURSIVE SplitOn(_, _)
SplitOn(s, M) ==
    LET k == FirstOf(s, M)
    IN IF k = 0 THEN <<s>> ELSE <<SubSeq(s, 1, k - 1)>> \o SplitOn(From(s, k + 1), M)

\* One invocation per segment: the first token is the name, the rest are
\* its arguments; a segment that starts with a variable reference gives none.
RECURSIVE PerSegment(_)
PerSegment(segs) ==
    IF segs = <<>> THEN <<>>
    ELSE (IF is_not_variable_token(Head(segs)[1])
          THEN <<<<Head(segs)[1], Tail(Head(segs))>>>> ELSE <<>>)
         \o PerSegment(Tail(segs))

\* C18: unwrapping run-keywords with AND separators feeds exactly one
\* invocation per AND-delimited segment, first token as name and the rest of
\* the segment as arguments, and never a token in argument position; without
\* any AND every token is its own invocation with no arguments.
C18_RunKeywordsSegments ==
    (/\ Searched
     /\ node.kw.v = "Run Keywords"
     /\ \A g \in Range(SplitOn(node.args, {"AND"})) : g # <<>>)
    => FedBy(1) = IF FirstOf(node.args, {"AND"}) = 0
                  THEN PerSegment([k \in 1..Len(node.args) |-> <<node.args[k]>>])
                  ELSE PerSegment(SplitOn(node.args, {"AND"}))

\* The branches of a run-keyword-if chain that starts at a keyword name: the
\* name, its arguments up to the next marker; after ELSE IF a condition
\* comes first.
RECURSIVE Branches(_)
Branches(s) ==
    LET k == FirstOf(s, {"ELSE", "ELSE IF"})
        seg == IF k = 0 THEN s ELSE SubSeq(s, 1, k - 1)
        left == IF k = 0 THEN <<>>
                ELSE IF s[k].v = "ELSE IF" THEN From(s, k + 2) ELSE From(s, k + 1)
    IN <<seg>> \o (IF k = 0 THEN <<>> ELSE Branches(left))

\* A chain is well formed when every branch has a keyword name and a
\* terminal ELSE, if any, comes last.
WellFormedChain(s) ==
    /\ Len(s) > 1
    /\ s[1].v \notin {"ELSE", "ELSE IF"}
    /\ \A g \in Range(Branches(Tail(s))) : g # <<>>
    /\ \A k \in 1..Len(s) :
          /\ s[k].v = "ELSE" => \A j \in (k + 1)..Len(s) : s[j].v \notin {"ELSE", "ELSE IF"}
          /\ s[k].v = "ELSE IF" => (k + 1 <= Len(s) /\ s[k + 1].v \notin {"ELSE", "ELSE IF"})

\* C19: unwrapping a run-keyword-if chain feeds exactly one invocation per
\* branch, the token at the branch's name position with the tokens up to the
\* next marker or the end as arguments; conditions and arguments are never
\* fed as keyword names.
C19_RunKeywordIfBranches ==
    (Searched /\ node.kw.v = "Run Keyword If" /\ WellFormedChain(node.args))
    => FedBy(1) = PerSegment(Branches(Tail(node.args)))

\* C20: a conditional wrapper with N conditions and more than N arguments
\* feeds exactly (arg[N], arg[N+1:]) when arg[N] is not a variable reference,
\* whatever the conditions are; with N or fewer arguments it feeds nothing.
C20_ConditionalWrapper ==
    (Searched /\ find_keyword(node.kw.v).kind = "run_keyword_with_condition")
    => LET n == find_keyword(node.kw.v).conds
       IN /\ (Len(node.args) > n /\ is_not_variable_token(node.args[n + 1]))
             => FedBy(1) = <<<<node.args[n + 1], From(node.args, n + 2)>>>>
          /\ Len(node.args) <= n => FedBy(1) = <<>>

\* The request was answered.
Answered == response.done

\* The innermost node of the request (only for request.node # 0).
RequestNode == Workspace[request.document][request.node]

\* The declaration of the symbol under the request's position, NoLocation if
\* no symbol resolves there.
DeclarationAt ==
    LET n == RequestNode
        keyword == IF isinstance(n, "KeywordName") THEN find_keyword(n.kw.v)
                   ELSE IF isinstance(n, "KeywordCall") \/ isinstance(n, "Fixture")
                   THEN get_keyworddoc_and_token_from_position(n, request.at)
                   ELSE NoKeyword
        subs == IF isinstance(n, "Statement")
                THEN variable_sub_tokens((<<n.kw>> \o n.args)[request.at]) ELSE <<>>
    IN IF keyword # NoKeyword THEN DeclarationOf(keyword)
       ELSE IF subs # <<>>
       THEN find_variable(request.document, subs[1].v,
                          Parent(request.document, request.node)).range
       ELSE NoLocation

\* C13: collect answers absent when no node encloses the position; a result
\* of the resolved handler that is not absent, the empty list included, is
\* returned as it is and the default handler does not run; the default
\* handler runs, and its result is returned, exactly when no handler
\* resolves or the handler returned absent.
C13_HandlerBeforeDefault ==
    Answered =>
        IF request.node = 0
        THEN response.ret = Absent /\ ~response.default
        ELSE LET m == find_method(RequestNode.type).method
                 h == IF m = None THEN Absent ELSE call_method(m, RequestNode, request)
             IN /\ response.method = m
                /\ (m # None /\ h.some) => (response.ret = h /\ ~response.default)
                /\ response.default <=> (m = None \/ ~h.some)
                /\ response.default => response.ret = references_default(RequestNode, request)

\* A Setup node, whose handler is inherited from Fixture, answered with the
\* empty list (no owning folder, no declaration asked): the list was
\* returned and the default handler did not run.
C13_Witness ==
    /\ Answered
    /\ request.node # 0
    /\ RequestNode.type = "Setup"
    /\ response.method = "Fixture"
    /\ response.result = Some(<<>>)
    /\ response.ret = Some(<<>>)
    /\ ~response.default

\* C14: without includeDeclaration the declaration of the resolved symbol is
\* not in the result; with it, and a declaration source, it is the first
\* element.
C14_DeclarationOnlyOnRequest ==
    (Answered /\ request.node # 0 /\ response.ret.some) =>
        /\ ~request.include_declaration => DeclarationAt \notin Range(response.ret.locs)
        /\ request.include_declaration
              => (response.ret.locs # <<>> /\ response.ret.locs[1] = DeclarationAt)

\* C15: a request on a document without owning workspace folder is answered
\* absent.
C15_NoFolderIsAbsent ==
    (Answered /\ ~request.folder) => response.ret = Absent

\* The variable under the request's position, NoVariable if there is none.
VariableAt ==
    IF request.node = 0 \/ ~isinstance(RequestNode, "Statement") THEN NoVariable
    ELSE LET subs == variable_sub_tokens((<<RequestNode.kw>> \o RequestNode.args)[request.at])
         IN IF subs = <<>> THEN NoVariable
            ELSE find_variable(request.document, subs[1].v,
                               Parent(request.document, request.node))

\* The keyword under the request's position, NoKeyword if there is none.
KeywordAt ==
    IF request.node = 0 THEN NoKeyword
    ELSE IF isinstance(RequestNode, "KeywordName") THEN find_keyword(RequestNode.kw.v)
    ELSE IF isinstance(RequestNode, "KeywordCall") \/ isinstance(RequestNode, "Fixture")
    THEN get_keyworddoc_and_token_from_position(RequestNode, request.at)
    ELSE NoKeyword

\* The answer is the outcome of a variable search, or of a keyword search,
\* in the workspace folder.
VariableSearched == Answered /\ response.default /\ response.ret.some /\ request.folder
KeywordSearched == Answered /\ ~response.default /\ response.ret.some /\ request.folder

\* The locations behind the declaration in the answer.
UseSites ==
    IF request.include_declaration THEN Tail(response.ret.locs) ELSE response.ret.locs

\* The units of s that did not fail, in order.
Succeeded(s) == SelectSeq(s, LAMBDA f : f \notin request.failing)

\* C21: the search for an argument or a local variable launches one unit, on
\* the requested document, and every location of the answer lies in that
\* document; for another variable one unit per file under the folder is
\* launched.
C21_ScopeLimitedSearch ==
    VariableSearched =>
        IF VariableAt.kind \in {"argument", "local"}
        THEN /\ variable_units(request, VariableAt) = <<request.document>>
             /\ \A k \in 1..Len(response.ret.locs) :
                   response.ret.locs[k].file = request.document
        ELSE variable_units(request, VariableAt) = Files

\* The loop variable ${a} of F1's second keyword block was searched: both
\* hits are in F1, although F1's first block and LibA declare an ${a} too.
C21_Witness ==
    /\ VariableSearched
    /\ VariableAt = VarA("F1", 10)
    /\ VariableAt.kind = "local"
    /\ find_variable("LibA", "${a}", 4).name = "${a}"
    /\ request.failing = {}
    /\ UseSites = <<Location("F1", 10, 2), Location("F1", 11, 2)>>

\* C22: the aggregate of a search with failing units is what the units that
\* did not fail returned, in the order of the units.
C22_FailedUnitsContributeNothing ==
    /\ KeywordSearched
          => UseSites = extend([j \in 1..Len(Succeeded(Files)) |->
                                  find_keyword_references_in_file(KeywordAt, Succeeded(Files)[j])])
    /\ VariableSearched
          => LET units == Succeeded(variable_units(request, VariableAt))
             IN UseSites = extend([j \in 1..Len(units) |->
                                     find_variable_references_in_file(VariableAt, units[j])])

\* KwA was searched from its call in F1 while the unit of F1 failed: the
\* answer holds the hit of LibA, behind the failed unit, and is not empty.
C22_Witness ==
    /\ KeywordSearched
    /\ KeywordAt = KwA
    /\ request.failing = {"F1"}
    /\ find_keyword_references_in_file(KwA, "F1") # <<>>
    /\ UseSites = find_keyword_references_in_file(KwA, "LibA")
    /\ UseSites # <<>>

\* C25: every location a variable search reports is a variable token that,
\* resolved in the block that holds its node (none behind a section start),
\* gives the very definition that was searched.
C25_SameDefinitionOnly ==
    VariableSearched =>
        \A k \in 1..Len(UseSites) :
            LET loc == UseSites[k]
                n == Workspace[loc.file][loc.node]
                t == (<<n.kw>> \o n.args)[loc.at]
            IN /\ t.v \in VariableNames
               /\ find_variable(loc.file, t.v, Parent(loc.file, loc.node)) = VariableAt

\* The argument ${a} of F1's first keyword block was searched: the hits are
\* the two of that block, not the ${a} of the second block, nor the one
\* behind the next section, nor LibA's.
C25_Witness ==
    /\ VariableSearched
    /\ VariableAt = VarA("F1", 7)
    /\ request.failing = {}
    /\ UseSites = <<Location("F1", 7, 2), Location("F1", 8, 2)>>
    /\ Workspace["F1"][11].args[1].v = "${a}"
    /\ Workspace["F1"][13].args[1].v = "${a}"

\* C23: once the cancellation of the request is signalled, a walk processes
\* at most one more node, in the keyword search and in the variable search.
C23_StopsWithinOneNode == walk.since <= 1

\* C29: no execution context requests the registry lock while it holds it:
\* the weak-reference callback remove_listener never starts on a thread that
\* is inside add or remove.
C29_LockNeverRequestedByHolder ==
    \A t \in Threads : th[t].op = "fin" => lock # t

\* C24: a call of extend_capabilities sets folding_range_provider exactly
\* when the dispatcher has a registered listener whose owner is not
\* released, and leaves it unset otherwise.
C24_AdvertisedIffListener ==
    [][capabilities' # capabilities
         => (capabilities'.folding_range_provider <=> (listeners[event'] \cap alive # {}))]_vars

\* The invocations made before the k-th one by the unwrapping of the token
\* at position p.
ProducersOf(k) ==
    {j \in 1..(k - 1) : out.fed[j].name.at = out.fed[k].by}

\* C27: every invocation of the keyword-match logic made by the unwrapping
\* of a wrapper receives strictly fewer argument tokens than the invocation
\* of that wrapper, its name and arguments being tokens of the wrapper's
\* arguments, and its arguments lying behind its name; the search of a node
\* ends with finitely many invocations.
C27_UnwrappingTerminates ==
    Searched
    => \A k \in 1..Len(out.fed) :
          LET e == out.fed[k]
          IN /\ \A a \in Range(e.args) : a.at > e.name.at
             /\ e.by # 0
                  => /\ e.name.at > e.by
                     /\ \E j \in ProducersOf(k) :
                           /\ Len(e.args) < Len(out.fed[j].args)
                           /\ e.name \in Range(out.fed[j].args)
                           /\ Range(e.args) \subseteq Range(out.fed[j].args)

\* A wrapper whose target is a wrapper again, in a node with five arguments:
\* the unwrapping recurses twice.
C27_Witness ==
    /\ Searched
    /\ Len(node.args) = MaxArgs
    /\ \E k \in 1..Len(out.fed) : out.fed[k].by > 1 /\ out.fed[k].args # <<>>
    /\ \E k \in 1..Len(out.fed) : out.fed[k].by = 1

\* C26: once the caller of a lazy dispatch has closed the sequence after an
\* entry, the dispatch has ended without an error, and it has neither
\* retrieved another completion nor yielded another entry since.
C26_CleanEarlyExit ==
    consumer.state = "closing"
    => /\ dState = "closed"
       /\ dErr = "none"
       /\ dTaken = consumer.taken
       /\ Len(dResults) = consumer.results

\* The calls of result_callback made for listener l.
CallsFor(l) == SelectSeq(callbacks, LAMBDA c : c.l = l)

\* C28: result_callback is called at most once per listener, only for a
\* listener that finished, with (result, no error) if it succeeded and with
\* (no result, its error) if it failed.
C28_OneCallPerListener ==
    \A l \in Listeners :
       /\ Len(CallsFor(l)) <= 1
       /\ CallsFor(l) # <<>>
            => \E k \in 1..Len(dCompleted) :
                  /\ dCompleted[k].l = l
                  /\ CallsFor(l)[1] = IF dCompleted[k].ok
                                      THEN CallbackCall(l, "value", "None")
                                      ELSE CallbackCall(l, "None", "ListenerError")

\* C30: whenever the future of a listener of a concurrent-thread dispatch is
\* done, with a value, an error or by cancellation, the listener's private
\* event loop is eventually stopped and closed and its worker released.
C30_WorkerReleased ==
    \A l \in Listeners :
       (worker[l].result \in {"value", "error", "cancelled"}) ~> (worker[l].run = "closed")

\* One listener was cancelled before a worker took its loop, the other one
\* failed; both loops are closed.
C30_Witness ==
    /\ worker[1].result = "cancelled"
    /\ worker[1].coro = "posted"
    /\ worker[1].run = "closed"
    /\ worker[2].result = "error"
    /\ worker[2].run = "closed"

====
